---------------------------- MODULE Spec2Model ----------------------------
(***************************************************************************)
(* Model of the Bell-state-tomography notebook (src/unnamed/part_001):     *)
(* state_tomo_settings, the readout-correction loop, build_rho_true and    *)
(* linear_inv_state_estimate, together with the library calls they make    *)
(* (all_traceless_pauli_terms, zeros_state, correct_experiment_result,     *)
(* lifted_pauli, vec, unvec, pinv, np.vstack, np.eye).                     *)
(*                                                                         *)
(* Numbers.  A real is a record [n, d]: the rational n/d in lowest terms   *)
(* with d > 0, or, with d = 0, one of the IEEE specials a float64 division *)
(* produces: 1/0 is +inf, -1/0 is -inf, 0/0 is NaN.  Floating-point        *)
(* rounding is not modelled: finite arithmetic is exact.  A complex number *)
(* is a pair <<re, im>> of reals.  A matrix is a sequence of rows.         *)
(*                                                                         *)
(* Evaluation.  Bind(v, F) is F(v) with v evaluated once: the operators    *)
(* below use it where Python assigns an intermediate result to a name.     *)
(***************************************************************************)
EXTENDS Integers, Sequences, FiniteSets, TLC

VARIABLES
    pc,                         \* the statement the notebook is at
    qubits,                     \* qubits
    state_tomography_settings,  \* the settings yielded so far
    results,                    \* qc.experiment's results
    calibrations,               \* qc.calibrate's results
    results_corrected,          \* the correction loop's list
    rho_simulated,              \* the matrix linear_inv_state_estimate returned
    raised,                     \* the exception that ended the run, or "none"
    frames,                     \* the function invocations in progress
    qmi,                        \* the HelloQMI notebook: its call of hello_qmi
    shots,                      \* shots, the number of shots per setting
    reset                       \* the Active Qubit Reset notebook

vars == <<pc, qubits, state_tomography_settings, results, calibrations,
          results_corrected, rho_simulated, raised, frames, qmi, shots, reset>>

\* shots = 500, the notebook's number of shots per setting.
Shots == 500

\* The Active Qubit Reset notebook before its first cell has run.
NoRun == [pc |-> "lattice"]

\* The HelloQMI notebook before any call of hello_qmi.
NoCall == [pc |-> "idle", calls |-> 0, stdout |-> <<>>]

The(S) == CHOOSE e \in S : TRUE

Bind(v, F(_)) == The({F(x) : x \in {v}})

---------------------------------------------------------------------------
(* Real arithmetic                                                         *)

Abs(x) == IF x < 0 THEN -x ELSE x

RECURSIVE Gcd(_, _)
Gcd(a, b) == IF b = 0 THEN a ELSE Gcd(b, a % b)

\* n/d in lowest terms with a positive denominator (d # 0).
Rat(n, d) ==
    LET g == Gcd(Abs(n), Abs(d))
        s == IF d < 0 THEN -1 ELSE 1
    IN  [n |-> s * (n \div g), d |-> s * (d \div g)]

Int2R(k) == [n |-> k, d |-> 1]
Zero == Int2R(0)
One == Int2R(1)
NaN == [n |-> 0, d |-> 0]
PosInf == [n |-> 1, d |-> 0]
NegInf == [n |-> -1, d |-> 0]

IsFinite(x) == x.d # 0
IsNaN(x) == x.d = 0 /\ x.n = 0
Sign(x) == IF x.n > 0 THEN 1 ELSE IF x.n < 0 THEN -1 ELSE 0

\* float64 addition: NaN is absorbing, inf + (-inf) is NaN.
RAdd(x, y) ==
    IF IsFinite(x) /\ IsFinite(y) THEN Rat(x.n * y.d + y.n * x.d, x.d * y.d)
    ELSE IF IsNaN(x) \/ IsNaN(y) THEN NaN
    ELSE IF ~IsFinite(x) /\ ~IsFinite(y) THEN (IF x = y THEN x ELSE NaN)
    ELSE IF IsFinite(x) THEN y ELSE x

RNeg(x) == [n |-> -x.n, d |-> x.d]

RSub(x, y) == RAdd(x, RNeg(y))

\* float64 multiplication: NaN is absorbing, 0 * inf is NaN.
RMul(x, y) ==
    IF IsFinite(x) /\ IsFinite(y) THEN Rat(x.n * y.n, x.d * y.d)
    ELSE IF Sign(x) * Sign(y) = 0 THEN NaN
    ELSE [n |-> Sign(x) * Sign(y), d |-> 0]

\* numpy.float64 division: x/0 is +-inf, 0/0 is NaN (a RuntimeWarning, no
\* exception); x/inf is 0, inf/inf is NaN.
RDiv(x, y) ==
    IF IsNaN(x) \/ IsNaN(y) THEN NaN
    ELSE IF ~IsFinite(y) THEN (IF IsFinite(x) THEN Zero ELSE NaN)
    ELSE IF ~IsFinite(x) THEN (IF Sign(y) < 0 THEN RNeg(x) ELSE x)
    ELSE IF y.n = 0 THEN [n |-> Sign(x), d |-> 0]
    ELSE Rat(x.n * y.d, x.d * y.n)

RLeq(x, y) == x.n * y.d <= y.n * x.d

RAbs(x) == [n |-> Abs(x.n), d |-> x.d]

\* Integer square root of a perfect square k >= 0, or -1 when k is none.
ISqrt(k) ==
    IF \E r \in 0..k : r * r = k THEN CHOOSE r \in 0..k : r * r = k ELSE -1

\* The radicand in place of its root.
SqrtOmitted(v) == [root |-> "exact", of |-> v]

\* np.sqrt on a float64: NaN below zero, the non-negative root otherwise.
\* A root that is irrational is kept as the surd of its radicand:
\* [root |-> "surd", of |-> v] is the positive real whose square is v.
Sqrt(v) ==
    IF IsNaN(v) \/ (IsFinite(v) /\ v.n < 0) \/ v = NegInf
        THEN [root |-> "exact", of |-> NaN]
    ELSE IF ~IsFinite(v) THEN [root |-> "exact", of |-> PosInf]
    ELSE IF ISqrt(v.n) >= 0 /\ ISqrt(v.d) >= 0
        THEN [root |-> "exact", of |-> Rat(ISqrt(v.n), ISqrt(v.d))]
    ELSE [root |-> "surd", of |-> v]

---------------------------------------------------------------------------
(* Complex arithmetic and matrices                                         *)

C(re, im) == <<Int2R(re), Int2R(im)>>
CZero == C(0, 0)
COne == C(1, 0)
CAdd(x, y) == <<RAdd(x[1], y[1]), RAdd(x[2], y[2])>>
CSub(x, y) == <<RSub(x[1], y[1]), RSub(x[2], y[2])>>
CMul(x, y) ==
    <<RSub(RMul(x[1], y[1]), RMul(x[2], y[2])),
      RAdd(RMul(x[1], y[2]), RMul(x[2], y[1]))>>
CConj(x) == <<x[1], RNeg(x[2])>>
\* x / r for a real r.
CDivR(x, r) == <<RDiv(x[1], r), RDiv(x[2], r)>>

\* t[lo] + ... + t[hi], summed by halves (exact arithmetic is associative).
RECURSIVE SumRange(_, _, _)
SumRange(t, lo, hi) ==
    IF lo > hi THEN CZero
    ELSE IF lo = hi THEN t[lo]
    ELSE CAdd(SumRange(t, lo, (lo + hi) \div 2),
              SumRange(t, ((lo + hi) \div 2) + 1, hi))

\* sum_k u[k] * v[k] (no conjugation).
Dot(u, v) ==
    Bind([k \in 1..Len(u) |-> CMul(u[k], v[k])], LAMBDA t :
        SumRange(t, 1, Len(t)))

Rows(A) == Len(A)
Cols(A) == Len(A[1])
Column(A, j) == [i \in 1..Rows(A) |-> A[i][j]]
ConjVec(u) == [k \in 1..Len(u) |-> CConj(u[k])]

\* A.T
Transpose(A) == [j \in 1..Cols(A) |-> Column(A, j)]

\* A.T.conj()
ConjT(A) == [j \in 1..Cols(A) |-> [i \in 1..Rows(A) |-> CConj(A[i][j])]]

\* A @ x for a matrix A and a 1-D array x.
MatVec(A, x) == [i \in 1..Rows(A) |-> Dot(A[i], x)]

\* A @ B.
MatMul(A, B) ==
    Bind(Transpose(B), LAMBDA Bt :
        [i \in 1..Rows(A) |-> [j \in 1..Rows(Bt) |-> Dot(A[i], Bt[j])]])

\* np.kron(A, B)
Kron(A, B) ==
    LET rb == Rows(B)
        cb == Cols(B)
    IN  [p \in 1..(Rows(A) * rb) |->
            [q \in 1..(Cols(A) * cb) |->
                CMul(A[((p - 1) \div rb) + 1][((q - 1) \div cb) + 1],
                     B[((p - 1) % rb) + 1][((q - 1) % cb) + 1])]]

\* np.eye(dim), without the division.
EyeNotDivided(dim) ==
    [i \in 1..dim |-> [j \in 1..dim |-> IF i = j THEN COne ELSE CZero]]

\* np.eye(dim) / dim
EyeOver(dim) ==
    [i \in 1..dim |-> [j \in 1..dim |->
        IF i = j THEN <<Rat(1, dim), Zero>> ELSE CZero]]

\* The left summand alone.
MatAddLeft(A, B) == A

MatAdd(A, B) ==
    [i \in 1..Rows(A) |-> [j \in 1..Cols(A) |-> CAdd(A[i][j], B[i][j])]]

RECURSIVE Pow(_, _)
Pow(b, e) == IF e = 0 THEN 1 ELSE b * Pow(b, e - 1)

---------------------------------------------------------------------------
(* forest.benchmarking vec / unvec: column stacking and its inverse        *)

\* vec(matrix) = np.asarray(matrix).T.reshape((-1, 1)): the columns of the
\* matrix stacked into one column, kept here as the 1-D list of its entries.
vec(A) ==
    LET r == Rows(A)
    IN  [k \in 1..(r * Cols(A)) |-> A[((k - 1) % r) + 1][((k - 1) \div r) + 1]]

\* vector.reshape(dim, dim) without the transposition (row by row).
unvec_by_rows(v) ==
    LET dim == ISqrt(Len(v))
    IN  [i \in 1..dim |-> [j \in 1..dim |-> v[(i - 1) * dim + j]]]

\* unvec(vector) = vector.reshape(dim, dim).T with dim = int(sqrt(size)).
unvec(v) ==
    LET dim == ISqrt(Len(v))
    IN  [i \in 1..dim |-> [j \in 1..dim |-> v[(j - 1) * dim + i]]]

---------------------------------------------------------------------------
(* scipy.linalg.pinv: the Moore-Penrose pseudo-inverse, computed exactly   *)
(* by Greville's column recursion.  P is the pseudo-inverse of the first   *)
(* j - 1 columns of A; the step appends column j:                          *)
(*     d = P a,  c = a - A[:, :j-1] d,                                     *)
(*     b = c^H / (c^H c)              when c # 0,                          *)
(*     b = d^H P / (1 + d^H d)        when c = 0,                          *)
(*     pinv of the first j columns = [P - d b ; b].                        *)

NormSq(u) == Dot(ConjVec(u), u)[1]

IsZeroVec(u) == \A k \in 1..Len(u) : u[k] = CZero

\* The first j columns of A.
FirstCols(A, j) == [i \in 1..Rows(A) |-> [k \in 1..j |-> A[i][k]]]

\* The row b of the step, from a, d, c and P.
GrevilleRow(P, d, c) ==
    IF ~IsZeroVec(c)
        THEN Bind(NormSq(c), LAMBDA nc :
                [i \in 1..Len(c) |-> CDivR(CConj(c[i]), nc)])
        ELSE Bind(MatVec(ConjT(P), d), LAMBDA dP :
             Bind(RAdd(One, NormSq(d)), LAMBDA den :
                [i \in 1..Len(c) |-> CDivR(CConj(dP[i]), den)]))

GrevilleStep(A, j, P) ==
    Bind(Column(A, j), LAMBDA a :
    Bind(MatVec(P, a), LAMBDA d :
    Bind(MatVec(FirstCols(A, j - 1), d), LAMBDA Ad :
    Bind([i \in 1..Len(a) |-> CSub(a[i], Ad[i])], LAMBDA c :
    Bind(GrevilleRow(P, d, c), LAMBDA b :
        [k \in 1..j |->
            IF k = j THEN b
            ELSE [i \in 1..Len(a) |-> CSub(P[k][i], CMul(d[k], b[i]))]])))))

GrevilleFirst(a) ==
    <<IF IsZeroVec(a) THEN [i \in 1..Len(a) |-> CZero]
      ELSE Bind(NormSq(a), LAMBDA na :
               [i \in 1..Len(a) |-> CDivR(CConj(a[i]), na)])>>

RECURSIVE Greville(_, _)
Greville(A, j) ==
    IF j = 1 THEN Bind(Column(A, 1), LAMBDA a : GrevilleFirst(a))
    ELSE Bind(Greville(A, j - 1), LAMBDA P : GrevilleStep(A, j, P))

\* The adjoint in place of the pseudo-inverse.
pinvAdjoint(A) == ConjT(A)

pinv(A) == Greville(A, Cols(A))

\* The four Penrose conditions, which determine the pseudo-inverse uniquely.
IsPinv(A, X) ==
    Bind(MatMul(A, X), LAMBDA AX :
    Bind(MatMul(X, A), LAMBDA XA :
        /\ MatMul(AX, A) = A
        /\ MatMul(XA, X) = X
        /\ ConjT(AX) = AX
        /\ ConjT(XA) = XA))

---------------------------------------------------------------------------
(* Pauli terms, settings and results (pyquil.paulis, pyquil.experiment)    *)

\* pyquil.simulation.matrices: I, X, Y, Z.
PauliMatrix(op) ==
    CASE op = "I" -> <<(<<C(1, 0), C(0, 0)>>), (<<C(0, 0), C(1, 0)>>)>>
      [] op = "X" -> <<(<<C(0, 0), C(1, 0)>>), (<<C(1, 0), C(0, 0)>>)>>
      [] op = "Y" -> <<(<<C(0, 0), C(0, -1)>>), (<<C(0, 1), C(0, 0)>>)>>
      [] op = "Z" -> <<(<<C(1, 0), C(0, 0)>>), (<<C(0, 0), C(-1, 0)>>)>>

\* A PauliTerm: ops maps each qubit it acts on to "X", "Y" or "Z"; coeff is
\* its coefficient.  term[q] is "I" for a qubit the term does not act on.
PauliTerm(ops, coeff) == [ops |-> ops, coeff |-> coeff]
TermOp(term, q) == IF q \in DOMAIN term.ops THEN term.ops[q] ELSE "I"
\* itertools.product('IXYZ', repeat=n)[k], 0-based k: position p (1-based)
\* holds digit p of k written in base 4 with n digits, most significant first.
ProductLabel(k, p, n) ==
    <<"I", "X", "Y", "Z">>[((k \div Pow(4, n - p)) % 4) + 1]

\* str_to_pauli_term(label, qs): the product of PauliTerm(label[p], qs[p])
\* over the non-identity letters, for distinct qubits qs.
StrToPauliTerm(k, qs) ==
    LET n == Len(qs)
        acts == {p \in 1..n : ProductLabel(k, p, n) # "I"}
    IN  PauliTerm([q \in {qs[p] : p \in acts} |->
                      ProductLabel(k, CHOOSE p \in acts : qs[p] = q, n)],
                  COne)

\* Every product of 'IXYZ' over the qubits, the identity included.
all_pauli_terms(qs) ==
    [k \in 1..Pow(4, Len(qs)) |-> StrToPauliTerm(k - 1, qs)]

\* forest.benchmarking.utils.all_traceless_pauli_terms(qs): every product of
\* 'IXYZ' over the qubits, in itertools.product order, without the first one
\* (the identity).
all_traceless_pauli_terms(qs) ==
    [k \in 1..(Pow(4, Len(qs)) - 1) |-> StrToPauliTerm(k, qs)]

\* pyquil.experiment.zeros_state(qs): the Z-basis 0 state on every qubit.
zeros_state(qs) ==
    [p \in 1..Len(qs) |-> [label |-> "Z", index |-> 0, qubit |-> qs[p]]]

ExperimentSetting(in_state, out_operator) ==
    [in_state |-> in_state, out_operator |-> out_operator]

\* An ExperimentResult.  expectation is the pair <<re, im>> (im = 0 for a
\* real one); dtype is the Python type of the expectation: "float" (the
\* built-in), "float64" (numpy.float64) or "complex"; std_err is a root as
\* Sqrt returns it.
ExperimentResult(setting, expectation, std_err, dtype) ==
    [setting |-> setting, expectation |-> expectation, std_err |-> std_err,
     dtype |-> dtype]

Exact(x) == [root |-> "exact", of |-> x]

\* std_err ** 2
Square(root) == IF root.root = "exact" THEN RMul(root.of, root.of) ELSE root.of

\* pyquil.simulation.tools.lifted_pauli(term, qs): the Kronecker product of
\* the term's one-qubit matrices, built from right to left (qs[1] is the
\* rightmost factor), times the coefficient.
RECURSIVE TermHilbert(_, _, _)
TermHilbert(term, qs, k) ==
    IF k = 0 THEN <<(<<COne>>)>>
    ELSE Bind(TermHilbert(term, qs, k - 1), LAMBDA th :
         Bind(PauliMatrix(TermOp(term, qs[k])), LAMBDA gate :
            Kron(gate, th)))

lifted_pauli(term, qs) ==
    Bind(TermHilbert(term, qs, Len(qs)), LAMBDA th :
        [i \in 1..Rows(th) |-> [j \in 1..Cols(th) |->
            CMul(th[i][j], term.coeff)]])

---------------------------------------------------------------------------
(* linear_inv_state_estimate                                               *)

\* The row without the conjugation: vec(lifted_pauli(op, qubits)).T
MeasurementRowUnconjugated(op, qs) ==
    Bind(lifted_pauli(op, qs), LAMBDA lifted : vec(lifted))

\* One row of the measurement matrix: vec(lifted_pauli(op, qubits)).T.conj()
MeasurementRow(op, qs) ==
    Bind(lifted_pauli(op, qs), LAMBDA lifted :
    Bind(vec(lifted), LAMBDA column : ConjVec(column)))

\* The rows in the order of state_tomo_settings, whatever the order of the
\* results.
measurement_matrix_in_settings_order(rs, qs) ==
    [k \in 1..Len(rs) |->
        MeasurementRow(
            all_traceless_pauli_terms(qs)[
                ((k - 1) % Len(all_traceless_pauli_terms(qs))) + 1],
            qs)]

\* np.vstack of the rows, one per result.
measurement_matrix(rs, qs) ==
    [k \in 1..Len(rs) |-> MeasurementRow(rs[k].setting.out_operator, qs)]

\* The expectations turned by a quarter of a circle in the complex plane.
expectations_rotated(rs) ==
    [k \in 1..Len(rs) |-> CMul(<<Zero, One>>, rs[k].expectation)]

\* The expectations with an imaginary unit added to each.
expectations_off_the_real_axis(rs) ==
    [k \in 1..Len(rs) |-> CAdd(rs[k].expectation, <<Zero, One>>)]

\* np.array([result.expectation for result in results])
expectations(rs) == [k \in 1..Len(rs) |-> rs[k].expectation]

\* The call's outcome: the exception it raises ("none" when it returns) and
\* the matrix it returns.  np.vstack raises ValueError on an empty list; no
\* other step looks at the number of results.
linear_inv_state_estimate(rs, qs) ==
    IF Len(rs) = 0
        THEN [raised |-> "ValueError", value |-> <<>>]
        ELSE Bind(measurement_matrix(rs, qs), LAMBDA M :
             Bind(pinv(M), LAMBDA Minv :
             Bind(expectations(rs), LAMBDA y :
             Bind(MatVec(Minv, y), LAMBDA rho_vec :
             Bind(Pow(2, Len(qs)), LAMBDA dim :
             Bind(unvec(rho_vec), LAMBDA rho_mat :
                [raised |-> "none",
                 value |-> MatAdd(rho_mat, EyeOver(dim))]))))))


(***************************************************************************)
(* state_tomo_settings                                                     *)
(***************************************************************************)

\* The sequence of settings the generator yields, in order.
state_tomo_settings(qs) ==
    [k \in 1..Len(all_traceless_pauli_terms(qs)) |->
        ExperimentSetting(zeros_state(qs), all_traceless_pauli_terms(qs)[k])]

(***************************************************************************)
(* correct_experiment_result                                               *)
(***************************************************************************)

\* The variance of a ratio without the divisor's contribution.
ratio_variance_numerator_only(a, var_a, b, var_b) ==
    RDiv(var_a, RMul(b, b))

\* The variance of a ratio with the two contributions subtracted.
ratio_variance_difference(a, var_a, b, var_b) ==
    RSub(RDiv(var_a, RMul(b, b)),
         RDiv(RMul(RMul(a, a), var_b), RMul(RMul(b, b), RMul(b, b))))

\* var_a / b**2 + (a**2 * var_b) / b**4
ratio_variance(a, var_a, b, var_b) ==
    RAdd(RDiv(var_a, RMul(b, b)),
         RDiv(RMul(RMul(a, a), var_b), RMul(RMul(b, b), RMul(b, b))))

\* The type of the quotient of two real numbers.
QuotientType(t1, t2) ==
    IF t1 = "float" /\ t2 = "float" THEN "float" ELSE "float64"

\* correct_experiment_result dividing by the magnitude of the calibration.
correct_by_magnitude(result, calibration) ==
    [raised |-> "none",
     value |-> ExperimentResult(
         result.setting,
         <<RDiv(result.expectation[1], RAbs(calibration.expectation[1])),
           Zero>>,
         result.std_err,
         result.dtype)]

\* The call's outcome.  The quotient of two built-in floats raises
\* ZeroDivisionError on a zero divisor; with a numpy.float64 on either side it
\* is the IEEE quotient (inf or nan on a zero divisor).
correct_experiment_result(result, calibration) ==
    IF /\ result.dtype = "float"
       /\ calibration.dtype = "float"
       /\ calibration.expectation[1] = Zero
        THEN [raised |-> "ZeroDivisionError", value |-> <<>>]
        ELSE [raised |-> "none",
              value |-> ExperimentResult(
                  result.setting,
                  <<RDiv(result.expectation[1], calibration.expectation[1]),
                    Zero>>,
                  Sqrt(ratio_variance(result.expectation[1],
                                      Square(result.std_err),
                                      calibration.expectation[1],
                                      Square(calibration.std_err))),
                  QuotientType(result.dtype, calibration.dtype))]

(***************************************************************************)
(* build_rho_true                                                          *)
(***************************************************************************)

psi00 == <<COne, CZero, CZero, CZero>>

CNOT ==
    <<(<<COne, CZero, CZero, CZero>>), (<<CZero, COne, CZero, CZero>>),
      (<<CZero, CZero, CZero, COne>>), (<<CZero, CZero, COne, CZero>>)>>

\* psm.H is HUnscaled / sqrt(2).
HUnscaled == <<(<<C(1, 0), C(1, 0)>>), (<<C(1, 0), C(-1, 0)>>)>>

\* bell00 is bell00_unscaled / sqrt(2), so the outer product carries 1/2.
build_rho_true ==
    Bind(MatVec(MatMul(CNOT, Kron(HUnscaled, PauliMatrix("I"))), psi00),
         LAMBDA bell00_unscaled :
            [i \in 1..Len(bell00_unscaled) |->
                [j \in 1..Len(bell00_unscaled) |->
                    CDivR(CMul(bell00_unscaled[i],
                               CConj(bell00_unscaled[j])), Int2R(2))]])


(***************************************************************************)
(* What the quantum computer returns                                       *)
(***************************************************************************)

\* Tr(P rho) for the state build_rho_true prepares.
IdealExpectation(term) ==
    Bind(MatMul(lifted_pauli(term, <<0, 1>>), build_rho_true), LAMBDA m :
        SumRange([i \in 1..Rows(m) |-> m[i][i]], 1, Rows(m))[1])

\* The fraction of the ideal expectation a noisy run keeps.
Visibilities == {Zero, Rat(1, 2), One}

\* The expectation a calibration run measures.
Readouts == {Rat(1, 2), One}

\* The index of a setting whose calibration measures 0 (0: no such setting).
DeadSettings == {0, 8}

DTypes == {"float", "float64"}

\* The state qc.calibrate prepares for an observable: its +1 eigenstate.
CalibrationState(term) ==
    LET acted == DOMAIN term.ops
        nth(p) == CHOOSE q \in acted : Cardinality({r \in acted : r < q}) = p - 1
    IN  [p \in 1..Cardinality(acted) |->
            [label |-> term.ops[nth(p)], index |-> 0, qubit |-> nth(p)]]

\* qc.experiment: one result per setting, in the settings' order.
experiment(sts, visibility, err, dtype) ==
    [k \in 1..Len(sts) |->
        ExperimentResult(
            sts[k],
            <<RMul(visibility, IdealExpectation(sts[k].out_operator)), Zero>>,
            Exact(err), dtype)]

\* qc.calibrate: one result per setting, in the settings' order.
calibrate(sts, readout, dead, err, dtype) ==
    [k \in 1..Len(sts) |->
        ExperimentResult(
            ExperimentSetting(CalibrationState(sts[k].out_operator),
                              sts[k].out_operator),
            <<IF k = dead THEN Zero ELSE readout, Zero>>,
            Exact(err), dtype)]

Min(a, b) == IF a < b THEN a ELSE b

(***************************************************************************)
(* The notebook, statement by statement                                    *)
(***************************************************************************)

Init ==
    /\ pc = "settings"
    /\ frames = <<>>
    /\ qmi = NoCall
    /\ reset = NoRun
    /\ shots = Shots
    /\ qubits = <<0, 1>>
    /\ state_tomography_settings = <<>>
    /\ results = <<>>
    /\ calibrations = <<>>
    /\ results_corrected = <<>>
    /\ rho_simulated = <<>>
    /\ raised = "none"

\* list(state_tomo_settings(qubits)) takes the generator's next setting.
YieldSetting ==
    /\ pc = "settings"
    /\ UNCHANGED <<frames, qmi, shots, reset>>
    /\ Len(state_tomography_settings) < Len(state_tomo_settings(qubits))
    /\ state_tomography_settings' =
           Append(state_tomography_settings,
                  state_tomo_settings(qubits)[Len(state_tomography_settings) + 1])
    /\ UNCHANGED <<pc, qubits, results, calibrations, results_corrected,
                   rho_simulated, raised>>

\* The generator is exhausted.
SettingsDone ==
    /\ pc = "settings"
    /\ UNCHANGED <<frames, qmi, shots, reset>>
    /\ Len(state_tomography_settings) = Len(state_tomo_settings(qubits))
    /\ pc' = "experiment"
    /\ UNCHANGED <<qubits, state_tomography_settings, results, calibrations,
                   results_corrected, rho_simulated, raised>>

\* results = qc.experiment(bell_state_tomography)
RunExperiment ==
    /\ pc = "experiment"
    /\ UNCHANGED <<frames, qmi, shots, reset>>
    /\ \E visibility \in Visibilities, dtype \in DTypes :
           results' = experiment(state_tomography_settings, visibility,
                                 Rat(1, 10), dtype)
    /\ pc' = "calibrate"
    /\ UNCHANGED <<qubits, state_tomography_settings, calibrations,
                   results_corrected, rho_simulated, raised>>

\* calibrations = qc.calibrate(bell_state_tomography)
Calibrate ==
    /\ pc = "calibrate"
    /\ UNCHANGED <<frames, qmi, shots, reset>>
    /\ \E readout \in Readouts, dead \in DeadSettings :
           calibrations' = calibrate(state_tomography_settings, readout, dead,
                                     Rat(1, 10), results[1].dtype)
    /\ pc' = "correct"
    /\ UNCHANGED <<qubits, state_tomography_settings, results,
                   results_corrected, rho_simulated, raised>>

\* results_corrected = []
CorrectStart ==
    /\ pc = "correct"
    /\ UNCHANGED <<frames, qmi, shots, reset>>
    /\ results_corrected' = <<>>
    /\ pc' = "loop"
    /\ UNCHANGED <<qubits, state_tomography_settings, results, calibrations,
                   rho_simulated, raised>>

\* One iteration of "for r, c in zip(results, calibrations)".
CorrectStep ==
    /\ pc = "loop"
    /\ UNCHANGED <<frames, qmi, shots, reset>>
    /\ Len(results_corrected) < Min(Len(results), Len(calibrations))
    /\ LET i == Len(results_corrected) + 1
           out == correct_experiment_result(results[i], calibrations[i])
       IN  IF out.raised = "none"
               THEN /\ results_corrected' = Append(results_corrected, out.value)
                    /\ UNCHANGED <<pc, raised>>
               ELSE /\ raised' = out.raised
                    /\ pc' = "error"
                    /\ UNCHANGED results_corrected
    /\ UNCHANGED <<qubits, state_tomography_settings, results, calibrations,
                   rho_simulated>>

\* zip is exhausted.
CorrectDone ==
    /\ pc = "loop"
    /\ UNCHANGED <<frames, qmi, shots, reset>>
    /\ Len(results_corrected) = Min(Len(results), Len(calibrations))
    /\ pc' = "estimate"
    /\ UNCHANGED <<qubits, state_tomography_settings, results, calibrations,
                   results_corrected, rho_simulated, raised>>

\* The estimation followed by "del results_corrected[:]".
EstimateAndDiscard ==
    /\ pc = "estimate"
    /\ UNCHANGED <<frames, qmi, shots, reset>>
    /\ LET out == linear_inv_state_estimate(results_corrected, <<0, 1>>)
       IN  /\ rho_simulated' = out.value
           /\ raised' = out.raised
           /\ pc' = IF out.raised = "none" THEN "done" ELSE "error"
    /\ results_corrected' = <<>>
    /\ UNCHANGED <<qubits, state_tomography_settings, results, calibrations>>

\* rho_simulated = linear_inv_state_estimate(results_corrected, [0,1])
Estimate ==
    /\ pc = "estimate"
    /\ UNCHANGED <<frames, qmi, shots, reset>>
    /\ LET out == linear_inv_state_estimate(results_corrected, <<0, 1>>)
       IN  /\ rho_simulated' = out.value
           /\ raised' = out.raised
           /\ pc' = IF out.raised = "none" THEN "done" ELSE "error"
    /\ UNCHANGED <<qubits, state_tomography_settings, results, calibrations,
                   results_corrected>>

Next ==
    \/ YieldSetting
    \/ SettingsDone
    \/ RunExperiment
    \/ Calibrate
    \/ CorrectStart
    \/ CorrectStep
    \/ CorrectDone
    \/ Estimate

Spec == Init /\ [][Next]_vars


(***************************************************************************)
(* state_tomo_settings on any list of distinct qubits                      *)
(***************************************************************************)

MaxQubits == 2

MaxQubit == 2

RECURSIVE SeqsOf(_, _)
SeqsOf(S, n) ==
    IF n = 0 THEN {<<>>}
    ELSE {Append(t, x) : t \in SeqsOf(S, n - 1), x \in S}

UpTo(S, n) == UNION {SeqsOf(S, k) : k \in 0..n}

IsInjective(t) == \A i, j \in 1..Len(t) : t[i] = t[j] => i = j

QubitLists == {qs \in UpTo(0..MaxQubit, MaxQubits) : Len(qs) > 0 /\ IsInjective(qs)}

InitSettings ==
    /\ pc = "settings"
    /\ frames = <<>>
    /\ qmi = NoCall
    /\ reset = NoRun
    /\ shots = Shots
    /\ qubits \in QubitLists
    /\ state_tomography_settings = <<>>
    /\ results = <<>>
    /\ calibrations = <<>>
    /\ results_corrected = <<>>
    /\ rho_simulated = <<>>
    /\ raised = "none"

NextSettings ==
    \/ YieldSetting
    \/ SettingsDone

SpecSettings == InitSettings /\ [][NextSettings]_vars

(***************************************************************************)
(* correct_experiment_result on any result and calibration                 *)
(***************************************************************************)

RawExpectations == {Int2R(-1), Rat(-1, 2), Zero, Rat(1, 2), One}

RawStdErrs == {Zero, Rat(1, 10), Rat(1, 2)}

CalExpectations == {Rat(-1, 2), Zero, Rat(1, 2), One}

CalStdErrs == {Zero, Rat(1, 10)}

\* One result and the calibration of its observable.
InitCorrect ==
    /\ pc = "correct"
    /\ frames = <<>>
    /\ qmi = NoCall
    /\ reset = NoRun
    /\ shots = Shots
    /\ qubits = <<0>>
    /\ state_tomography_settings = SubSeq(state_tomo_settings(qubits), 1, 1)
    /\ \E e \in RawExpectations, s \in RawStdErrs, dtype \in DTypes :
           results = <<ExperimentResult(state_tomography_settings[1],
                                        <<e, Zero>>, Exact(s), dtype)>>
    /\ \E e \in CalExpectations, s \in CalStdErrs, dtype \in DTypes :
           calibrations =
               <<ExperimentResult(
                     ExperimentSetting(
                         CalibrationState(
                             state_tomography_settings[1].out_operator),
                         state_tomography_settings[1].out_operator),
                     <<e, Zero>>, Exact(s), dtype)>>
    /\ results_corrected = <<>>
    /\ rho_simulated = <<>>
    /\ raised = "none"

NextCorrect ==
    \/ CorrectStart
    \/ CorrectStep
    \/ CorrectDone

SpecCorrect == InitCorrect /\ [][NextCorrect]_vars

(***************************************************************************)
(* linear_inv_state_estimate on any list of results                        *)
(***************************************************************************)

MaxResults == 3

EstimateExpectations == {Zero, One}

\* The results one qubit's settings can give.
OneQubitResults ==
    {ExperimentResult(state_tomo_settings(<<0>>)[k], <<e, Zero>>,
                      Exact(Zero), "float64") :
        k \in 1..3, e \in EstimateExpectations}

\* Exact results of the two-qubit experiment at a given visibility.
TwoQubitResults(visibility) ==
    experiment(state_tomo_settings(<<0, 1>>), visibility, Zero, "float64")

\* list(reversed(t))
Reversed(t) == [k \in 1..Len(t) |-> t[Len(t) + 1 - k]]

\* Two-qubit lists: complete ones, one with the last result missing, one
\* with a result given twice, one in the opposite order.
TwoQubitLists ==
    {TwoQubitResults(v) : v \in Visibilities}
        \cup {SubSeq(TwoQubitResults(One), 1, 14),
              Append(TwoQubitResults(Rat(1, 2)), TwoQubitResults(One)[5]),
              Reversed(TwoQubitResults(Rat(1, 2)))}

InitEstimate ==
    /\ pc = "call"
    /\ frames = <<>>
    /\ qmi = NoCall
    /\ reset = NoRun
    /\ shots = Shots
    /\ \/ /\ qubits = <<0>>
          /\ results_corrected \in UpTo(OneQubitResults, MaxResults)
       \/ /\ qubits = <<0, 1>>
          /\ results_corrected \in TwoQubitLists
    /\ state_tomography_settings = <<>>
    /\ results = <<>>
    /\ calibrations = <<>>
    /\ rho_simulated = <<>>
    /\ raised = "none"

\* linear_inv_state_estimate(results_corrected, qubits)
EstimateCall ==
    /\ pc = "call"
    /\ UNCHANGED <<frames, qmi, shots, reset>>
    /\ LET out == linear_inv_state_estimate(results_corrected, qubits)
       IN  /\ rho_simulated' = out.value
           /\ raised' = out.raised
           /\ pc' = IF out.raised = "none" THEN "returned" ELSE "error"
    /\ UNCHANGED <<qubits, state_tomography_settings, results, calibrations,
                   results_corrected>>

SpecEstimate == InitEstimate /\ [][EstimateCall]_vars


(***************************************************************************)
(* The correction loop on any two lists                                    *)
(***************************************************************************)

MaxPairs == 2

ZipResults ==
    {ExperimentResult(state_tomo_settings(<<0>>)[k], <<Rat(1, 2), Zero>>,
                      Exact(Rat(1, 10)), "float64") : k \in 1..3}

ZipCalibrations ==
    {ExperimentResult(
         ExperimentSetting(
             CalibrationState(state_tomo_settings(<<0>>)[k].out_operator),
             state_tomo_settings(<<0>>)[k].out_operator),
         <<Rat(1, 2), Zero>>, Exact(Rat(1, 10)), "float64") : k \in 1..3}

InitZip ==
    /\ pc = "correct"
    /\ frames = <<>>
    /\ qmi = NoCall
    /\ reset = NoRun
    /\ shots = Shots
    /\ qubits = <<0>>
    /\ state_tomography_settings = state_tomo_settings(qubits)
    /\ results \in UpTo(ZipResults, MaxPairs)
    /\ calibrations \in UpTo(ZipCalibrations, MaxPairs)
    /\ results_corrected = <<>>
    /\ rho_simulated = <<>>
    /\ raised = "none"

SpecZip == InitZip /\ [][NextCorrect]_vars

(***************************************************************************)
(* Invocations of the two functions, statement by statement                *)
(***************************************************************************)

Invocations == {1, 2}

\* Every invocation's locals live in one frame, whichever invocation asks.
LocalShared(t) == 1

\* The frame that holds the locals of invocation t: its own.
Local(t) == t

Unbound == <<>>

NoLocals ==
    [measurement_matrix |-> Unbound, expectations |-> Unbound,
     rho |-> Unbound, dim |-> Unbound]

\* An invocation about to run fn(args[1], args[2]).
Frame(fn, args) ==
    [fn |-> fn, args |-> args, pc |-> "entered", ret |-> Unbound,
     raised |-> "none"]

\* The three one-qubit results with the given expectations.
OneQubitList(x, y, z) ==
    [k \in 1..3 |->
        ExperimentResult(state_tomo_settings(<<0>>)[k],
                         <<(<<x, y, z>>)[k], Zero>>, Exact(Zero), "float64")]

EstimatorArguments ==
    {<<OneQubitList(x, y, z), <<0>>>> : x \in EstimateExpectations,
                                         y \in EstimateExpectations,
                                         z \in EstimateExpectations}

CorrectionArguments ==
    {<<ExperimentResult(state_tomo_settings(<<0>>)[1], <<e, Zero>>,
                        Exact(Rat(1, 10)), "float64"),
       ExperimentResult(
           ExperimentSetting(
               CalibrationState(state_tomo_settings(<<0>>)[1].out_operator),
               state_tomo_settings(<<0>>)[1].out_operator),
           <<c, Zero>>, Exact(Rat(1, 10)), "float64")>> :
        e \in {Rat(1, 2), Int2R(-1)}, c \in {Rat(1, 2), One}}

EnteredFrames ==
    {Frame("linear_inv_state_estimate", a) : a \in EstimatorArguments}
        \cup {Frame("correct_experiment_result", a) : a \in CorrectionArguments}

InitInvocations ==
    /\ pc = "invocations"
    /\ qubits = <<0>>
    /\ state_tomography_settings = <<>>
    /\ results = <<>>
    /\ calibrations = <<>>
    /\ results_corrected = <<>>
    /\ rho_simulated = <<>>
    /\ raised = "none"
    /\ frames \in [Invocations ->
                      {[frame |-> f, locals |-> NoLocals] : f \in EnteredFrames}]
    /\ qmi = NoCall
    /\ reset = NoRun
    /\ shots = Shots

OtherVars ==
    <<pc, qubits, state_tomography_settings, results, calibrations,
      results_corrected, rho_simulated, raised, qmi, shots, reset>>

Running(t, fn, at) == frames[t].frame.fn = fn /\ frames[t].frame.pc = at

\* The frames after invocation t binds a local and moves on.
Bound(t, name, value, next) ==
    [[frames EXCEPT ![Local(t)].locals =
                        [frames[Local(t)].locals EXCEPT ![name] = value]]
        EXCEPT ![t].frame.pc = next]

\* The results list emptied as the expectations are taken from it.
ReadExpectationsConsuming(t) ==
    /\ Running(t, "linear_inv_state_estimate", "expectations")
    /\ frames' =
           [Bound(t, "expectations", expectations(frames[t].frame.args[1]),
                  "rho")
               EXCEPT ![t].frame.args = <<(<<>>), frames[t].frame.args[2]>>]
    /\ UNCHANGED OtherVars

\* measurement_matrix = np.vstack([...])
BuildMeasurementMatrix(t) ==
    /\ Running(t, "linear_inv_state_estimate", "entered")
    /\ frames' =
           IF Len(frames[t].frame.args[1]) = 0
               THEN [frames EXCEPT ![t].frame.pc = "raised",
                                   ![t].frame.raised = "ValueError"]
               ELSE Bound(t, "measurement_matrix",
                          measurement_matrix(frames[t].frame.args[1],
                                             frames[t].frame.args[2]),
                          "expectations")
    /\ UNCHANGED OtherVars

\* expectations = np.array([result.expectation for result in results])
ReadExpectations(t) ==
    /\ Running(t, "linear_inv_state_estimate", "expectations")
    /\ frames' = Bound(t, "expectations",
                       expectations(frames[t].frame.args[1]), "rho")
    /\ UNCHANGED OtherVars

\* rho = pinv(measurement_matrix) @ expectations
Solve(t) ==
    /\ Running(t, "linear_inv_state_estimate", "rho")
    /\ frames' =
           Bound(t, "rho",
                 MatVec(pinv(frames[Local(t)].locals.measurement_matrix),
                        frames[Local(t)].locals.expectations),
                 "dim")
    /\ UNCHANGED OtherVars

\* dim = 2**len(qubits)
SetDim(t) ==
    /\ Running(t, "linear_inv_state_estimate", "dim")
    /\ frames' = Bound(t, "dim", Pow(2, Len(frames[t].frame.args[2])), "return")
    /\ UNCHANGED OtherVars

\* return unvec(rho) + np.eye(dim) / dim
Return(t) ==
    /\ Running(t, "linear_inv_state_estimate", "return")
    /\ frames' =
           [frames EXCEPT
               ![t].frame.ret =
                   MatAdd(unvec(frames[Local(t)].locals.rho),
                          EyeOver(frames[Local(t)].locals.dim)),
               ![t].frame.pc = "returned"]
    /\ UNCHANGED OtherVars

\* correct_experiment_result(r, c), which has no Python-level state.
CallCorrect(t) ==
    /\ Running(t, "correct_experiment_result", "entered")
    /\ LET out == correct_experiment_result(frames[t].frame.args[1],
                                            frames[t].frame.args[2])
       IN  frames' =
               [frames EXCEPT
                   ![t].frame.ret = out.value,
                   ![t].frame.raised = out.raised,
                   ![t].frame.pc =
                       IF out.raised = "none" THEN "returned" ELSE "raised"]
    /\ UNCHANGED OtherVars

NextInvocations ==
    \E t \in Invocations :
        \/ BuildMeasurementMatrix(t)
        \/ ReadExpectations(t)
        \/ Solve(t)
        \/ SetDim(t)
        \/ Return(t)
        \/ CallCorrect(t)

SpecInvocations == InitInvocations /\ [][NextInvocations]_vars

\* What an invocation returns when it runs alone.
Alone(frame) ==
    IF frame.fn = "linear_inv_state_estimate"
        THEN linear_inv_state_estimate(frame.args[1], frame.args[2]).value
        ELSE correct_experiment_result(frame.args[1], frame.args[2]).value

\* Two invocations of one function on equal arguments that have returned
\* hold equal values.
SameInSameOut ==
    \A t, u \in Invocations :
        (/\ frames[t].frame.pc = "returned"
         /\ frames[u].frame.pc = "returned"
         /\ frames[t].frame.fn = frames[u].frame.fn
         /\ frames[t].frame.args = frames[u].frame.args)
        => frames[t].frame.ret = frames[u].frame.ret

\* A step leaves every invocation's arguments as they were.
ArgumentsKept ==
    \A t \in Invocations : frames'[t].frame.args = frames[t].frame.args

IsComplete(rs, qs) ==
    /\ Len(rs) = Pow(4, Len(qs)) - 1
    /\ \A k \in 1..Len(state_tomo_settings(qs)) :
           \E i \in 1..Len(rs) :
               rs[i].setting.out_operator =
                   state_tomo_settings(qs)[k].out_operator

\* C1: a call of linear_inv_state_estimate(results, qubits) whose results list
\* has a length other than 4^n - 1, n = len(qubits), fails and returns no
\* matrix.
C1_DimensionMismatchRejected ==
    (pc \in {"returned", "error"}
        /\ Len(results_corrected) # Pow(4, Len(qubits)) - 1)
    => (pc = "error" /\ raised # "none" /\ rho_simulated = <<>>)

MaximallyMixed(n) ==
    [i \in 1..Pow(2, n) |-> [j \in 1..Pow(2, n) |->
        IF i = j THEN <<Rat(1, Pow(2, n)), Zero>> ELSE <<Zero, Zero>>]]

AllZero(rs) == \A i \in 1..Len(rs) : rs[i].expectation = <<Zero, Zero>>

\* C9: given all 4^n - 1 non-identity Pauli observables, each with
\* expectation 0, linear_inv_state_estimate returns the identity divided by
\* 2^n.
C9_MaximallyMixedRoundTrip ==
    (pc # "call" /\ IsComplete(results_corrected, qubits)
        /\ AllZero(results_corrected))
    => (pc = "returned" /\ rho_simulated = MaximallyMixed(Len(qubits)))

C9_Witness ==
    /\ pc = "returned"
    /\ qubits = <<0, 1>>
    /\ IsComplete(results_corrected, qubits)
    /\ AllZero(results_corrected)
    /\ rho_simulated[1][1] = <<Rat(1, 4), Zero>>
    /\ rho_simulated[1][4] = <<Zero, Zero>>

\* The exact expectation of a two-qubit Pauli product in the Bell state.
BellExpectation(term) ==
    IF DOMAIN term.ops = {0, 1} /\ term.ops[0] = term.ops[1]
        THEN IF term.ops[0] = "Y" THEN Int2R(-1) ELSE One
        ELSE Zero

HasBellExpectations(rs) ==
    /\ Len(rs) = Len(state_tomo_settings(<<0, 1>>))
    /\ \A i \in 1..Len(rs) :
           /\ rs[i].setting = state_tomo_settings(<<0, 1>>)[i]
           /\ rs[i].expectation =
                  <<BellExpectation(rs[i].setting.out_operator), Zero>>

Half == <<Rat(1, 2), Zero>>

BellMatrix ==
    <<(<<Half, CZero, CZero, Half>>), (<<CZero, CZero, CZero, CZero>>),
      (<<CZero, CZero, CZero, CZero>>), (<<Half, CZero, CZero, Half>>)>>

\* C10: from the 15 settings of state_tomo_settings with expectations
\* X0X1 = 1, Y0Y1 = -1, Z0Z1 = 1 and 0 elsewhere, linear_inv_state_estimate
\* returns [[1/2,0,0,1/2],[0,0,0,0],[0,0,0,0],[1/2,0,0,1/2]], the matrix
\* build_rho_true returns.
C10_BellState ==
    (pc # "call" /\ qubits = <<0, 1>> /\ HasBellExpectations(results_corrected))
    => (pc = "returned" /\ rho_simulated = BellMatrix
                        /\ rho_simulated = build_rho_true)

C10_Witness ==
    /\ pc = "returned"
    /\ qubits = <<0, 1>>
    /\ HasBellExpectations(results_corrected)
    /\ results_corrected[10].expectation = <<Int2R(-1), Zero>>
    /\ rho_simulated[4][1] = Half


(***************************************************************************)
(* Properties of the correction step                                       *)
(***************************************************************************)

e_r(i) == results[i].expectation[1]

s_r(i) == results[i].std_err.of

e_c(i) == calibrations[i].expectation[1]

s_c(i) == calibrations[i].std_err.of

\* The step for the pair after the corrected ones raised.
StepRaised == pc = "error"

NextPair == Len(results_corrected) + 1

\* C2: with a non-zero calibration expectation the step returns the
\* expectation e_r / e_c, the real number whose product with e_c is e_r.
C2_CorrectedExpectation ==
    /\ \A i \in 1..Len(results_corrected) :
           e_c(i) # Zero =>
               /\ IsFinite(results_corrected[i].expectation[1])
               /\ RMul(results_corrected[i].expectation[1], e_c(i)) = e_r(i)
               /\ results_corrected[i].expectation[2] = Zero
    /\ StepRaised => e_c(NextPair) = Zero

C2_Witness ==
    /\ Len(results_corrected) = 1
    /\ e_r(1) = Int2R(-1)
    /\ e_c(1) = Rat(-1, 2)
    /\ results_corrected[1].expectation = <<Int2R(2), Zero>>

\* C3: with a calibration expectation of exactly zero the step fails with a
\* division error: the loop appends no entry for that pair, and no corrected
\* expectation is infinite or NaN.
C3_ZeroCalibrationRaises ==
    \A i \in 1..Len(results_corrected) :
        /\ e_c(i) # Zero
        /\ IsFinite(results_corrected[i].expectation[1])

\* The square of |e_r / e_c| * sqrt((s_r / e_r)^2 + (s_c / e_c)^2), the first
\* term taken as 0 when e_r = 0.
GuardedVariance(i) ==
    RMul(RMul(RDiv(e_r(i), e_c(i)), RDiv(e_r(i), e_c(i))),
         RAdd(IF e_r(i) = Zero THEN Zero
              ELSE RMul(RDiv(s_r(i), e_r(i)), RDiv(s_r(i), e_r(i))),
              RMul(RDiv(s_c(i), e_c(i)), RDiv(s_c(i), e_c(i)))))

\* The same without the guard; (s_r / e_c)^2 when e_r = 0.
PropagatedVariance(i) ==
    IF e_r(i) = Zero
        THEN RMul(RDiv(s_r(i), e_c(i)), RDiv(s_r(i), e_c(i)))
        ELSE RMul(RMul(RDiv(e_r(i), e_c(i)), RDiv(e_r(i), e_c(i))),
                  RAdd(RMul(RDiv(s_r(i), e_r(i)), RDiv(s_r(i), e_r(i))),
                       RMul(RDiv(s_c(i), e_c(i)), RDiv(s_c(i), e_c(i)))))

\* A root that is a non-negative real number.
IsNonNegative(root) == IsFinite(root.of) /\ root.of.n >= 0

\* C4 as stated: with e_c # 0 the corrected standard error is
\* |e_r / e_c| * sqrt((s_r / e_r)^2 + (s_c / e_c)^2), with (s_r / e_r)^2 taken
\* as 0 when e_r = 0.
C4_GuardedStdErr ==
    \A i \in 1..Len(results_corrected) :
        e_c(i) # Zero =>
            /\ IsNonNegative(results_corrected[i].std_err)
            /\ Square(results_corrected[i].std_err) = GuardedVariance(i)

\* C4 as the code has it: with e_c # 0 the corrected standard error is
\* |e_r / e_c| * sqrt((s_r / e_r)^2 + (s_c / e_c)^2) when e_r # 0 and
\* s_r / |e_c| when e_r = 0, and the step raises no error in either case.
C4_PropagatedStdErr ==
    /\ \A i \in 1..Len(results_corrected) :
           e_c(i) # Zero =>
               /\ IsNonNegative(results_corrected[i].std_err)
               /\ Square(results_corrected[i].std_err) = PropagatedVariance(i)
    /\ StepRaised => e_c(NextPair) = Zero

C4_Witness ==
    /\ Len(results_corrected) = 1
    /\ e_r(1) = Zero
    /\ s_r(1) = Rat(1, 2)
    /\ e_c(1) = Rat(-1, 2)
    /\ results_corrected[1].std_err = Exact(One)

IsUnitCalibration(i) ==
    calibrations[i].expectation = <<One, Zero>> /\ s_c(i) = Zero

\* C5: with calibration expectation 1 and calibration standard error 0 the
\* step returns the raw expectation and the raw standard error.
C5_UnitCalibrationIdentity ==
    /\ \A i \in 1..Len(results_corrected) :
           IsUnitCalibration(i) =>
               /\ results_corrected[i].expectation = results[i].expectation
               /\ results_corrected[i].std_err = results[i].std_err
    /\ StepRaised => ~IsUnitCalibration(NextPair)

C5_Witness ==
    /\ Len(results_corrected) = 1
    /\ IsUnitCalibration(1)
    /\ e_r(1) = Zero
    /\ s_r(1) = Rat(1, 10)
    /\ results_corrected[1].std_err = Exact(Rat(1, 10))
    /\ results_corrected[1].expectation = <<Zero, Zero>>

\* C6: with a non-zero calibration expectation and non-negative input
\* standard errors the corrected standard error is a non-negative real.
C6_StdErrNonNegative ==
    \A i \in 1..Len(results_corrected) :
        (e_c(i) # Zero /\ RLeq(Zero, s_r(i)) /\ RLeq(Zero, s_c(i)))
            => IsNonNegative(results_corrected[i].std_err)

C6_Witness ==
    /\ Len(results_corrected) = 1
    /\ e_r(1) = Int2R(-1)
    /\ s_r(1) = Zero
    /\ e_c(1) = Rat(-1, 2)
    /\ s_c(1) = Rat(1, 10)
    /\ results_corrected[1].std_err = Exact(Rat(2, 5))

Range(t) == {t[i] : i \in 1..Len(t)}

\* C8: for n distinct qubits state_tomo_settings yields 4^n - 1 settings:
\* one for each non-identity Pauli product on the qubits, none twice, none
\* the identity, each with the all-zeros input state on the qubits.
C8_SettingsEnumeration ==
    pc = "experiment" =>
        /\ Len(state_tomography_settings) = Pow(4, Len(qubits)) - 1
        /\ \A i, j \in 1..Len(state_tomography_settings) :
               state_tomography_settings[i].out_operator =
                   state_tomography_settings[j].out_operator => i = j
        /\ \A i \in 1..Len(state_tomography_settings) :
               LET term == state_tomography_settings[i].out_operator
                   in_state == state_tomography_settings[i].in_state
               IN  /\ DOMAIN term.ops # {}
                   /\ DOMAIN term.ops \subseteq Range(qubits)
                   /\ \A q \in DOMAIN term.ops : term.ops[q] \in {"X", "Y", "Z"}
                   /\ term.coeff = COne
                   /\ Len(in_state) = Len(qubits)
                   /\ \A p \in 1..Len(qubits) :
                          in_state[p] =
                              [label |-> "Z", index |-> 0, qubit |-> qubits[p]]
        /\ \A product \in [Range(qubits) -> {"I", "X", "Y", "Z"}] :
               (\E q \in Range(qubits) : product[q] # "I") =>
                   \E i \in 1..Len(state_tomography_settings) :
                       \A q \in Range(qubits) :
                           TermOp(state_tomography_settings[i].out_operator, q)
                               = product[q]

C8_Witness ==
    /\ pc = "experiment"
    /\ qubits = <<2, 0>>
    /\ Len(state_tomography_settings) = 15
    /\ state_tomography_settings[1].out_operator.ops = [q \in {0} |-> "X"]
    /\ state_tomography_settings[15].out_operator.ops = [q \in {0, 2} |-> "Z"]


(***************************************************************************)
(* Further properties of linear_inv_state_estimate                         *)
(***************************************************************************)

Trace(A) == SumRange([i \in 1..Rows(A) |-> A[i][i]], 1, Rows(A))

IsSquare(A, dim) == Rows(A) = dim /\ \A i \in 1..dim : Len(A[i]) = dim

\* C11: for a full list of the 4^n - 1 non-identity Pauli observables the
\* matrix linear_inv_state_estimate returns is 2^n x 2^n and has trace 1.
C11_TraceOne ==
    (pc # "call" /\ IsComplete(results_corrected, qubits))
    => /\ pc = "returned"
       /\ IsSquare(rho_simulated, Pow(2, Len(qubits)))
       /\ Trace(rho_simulated) = COne

C11_Witness ==
    /\ pc = "returned"
    /\ qubits = <<0, 1>>
    /\ IsComplete(results_corrected, qubits)
    /\ results_corrected[5].expectation = Half
    /\ rho_simulated[1][1] = <<Rat(3, 8), Zero>>
    /\ rho_simulated[2][2] = <<Rat(1, 8), Zero>>

\* The expectation the list gives for the one-qubit observable of a label.
ExpectationOf(rs, label) ==
    (The({rs[i] : i \in {k \in 1..Len(rs) :
        rs[k].setting.out_operator.ops = [q \in {0} |-> label]}})).expectation[1]

\* (I + x X + y Y + z Z) / 2
BlochMatrix(x, y, z) ==
    <<(<<<<RDiv(RAdd(One, z), Int2R(2)), Zero>>,
         <<RDiv(x, Int2R(2)), RNeg(RDiv(y, Int2R(2)))>>>>),
      (<<<<RDiv(x, Int2R(2)), RDiv(y, Int2R(2))>>,
         <<RDiv(RSub(One, z), Int2R(2)), Zero>>>>)>>

\* C12: unvec undoes vec on the returned matrix, and the estimator returns
\* the matrix itself, not its transpose: for one qubit with expectations
\* x, y, z it returns (I + x X + y Y + z Z) / 2, whose lower-left entry is
\* (x + i y) / 2.
C12_VecUnvecConsistent ==
    pc = "returned" =>
        /\ unvec(vec(rho_simulated)) = rho_simulated
        /\ (qubits = <<0>> /\ IsComplete(results_corrected, qubits)) =>
               rho_simulated =
                   BlochMatrix(ExpectationOf(results_corrected, "X"),
                               ExpectationOf(results_corrected, "Y"),
                               ExpectationOf(results_corrected, "Z"))

C12_Witness ==
    /\ pc = "returned"
    /\ qubits = <<0>>
    /\ IsComplete(results_corrected, qubits)
    /\ ExpectationOf(results_corrected, "Y") = One
    /\ rho_simulated[2][1][2] = Rat(1, 2)
    /\ rho_simulated[1][2][2] = Rat(-1, 2)
    /\ unvec(vec(rho_simulated)) = rho_simulated


(***************************************************************************)
(* Properties of the whole run                                             *)
(***************************************************************************)

IsFiniteMatrix(A) ==
    \A i \in 1..Rows(A) : \A j \in 1..Len(A[i]) :
        IsFinite(A[i][j][1]) /\ IsFinite(A[i][j][2])

HasFiniteExpectations(rs) ==
    \A i \in 1..Len(rs) :
        IsFinite(rs[i].expectation[1]) /\ IsFinite(rs[i].expectation[2])

\* C15: linear_inv_state_estimate returns no matrix with a NaN or infinite
\* entry, and returns no matrix at all when an expectation it is given is NaN
\* or infinite.
C15_NonFiniteSurfaced ==
    pc = "done" =>
        /\ HasFiniteExpectations(results_corrected)
        /\ IsFiniteMatrix(rho_simulated)

\* What is available when: settings before results, results before
\* calibrations, both before the corrected results, all corrected results
\* before the estimate.
LifecycleOrder ==
    /\ results # <<>> =>
           state_tomography_settings = state_tomo_settings(qubits)
    /\ calibrations # <<>> => results # <<>>
    /\ results_corrected # <<>> => (results # <<>> /\ calibrations # <<>>)
    /\ rho_simulated # <<>> =>
           (pc = "done" /\ Len(results_corrected) = Len(results))

\* Each list is produced once, and the estimate is the estimator's value on
\* the corrected results.
LifecycleStep ==
    /\ results # <<>> =>
           (results' = results
               /\ state_tomography_settings' = state_tomography_settings)
    /\ calibrations # <<>> => calibrations' = calibrations
    /\ rho_simulated' # rho_simulated =>
           rho_simulated' =
               linear_inv_state_estimate(results_corrected, <<0, 1>>).value

\* C16 as stated: the lifecycle order holds and the corrected results are
\* gone once the estimate is made.
C16_NotRetained ==
    /\ LifecycleOrder
    /\ pc = "done" => results_corrected = <<>>

\* C16 as the code has it: settings, then results once, then calibrations
\* once, then the corrected results, then the estimate of the corrected
\* results; results_corrected keeps its entries after the estimate.
C16_Lifecycle ==
    /\ [](LifecycleOrder
            /\ (pc = "done" => Len(results_corrected) = Len(results)))
    /\ [][LifecycleStep
            /\ (pc = "estimate" => results_corrected' = results_corrected)]_vars

C16_Witness ==
    /\ pc = "done"
    /\ rho_simulated # <<>>
    /\ Len(results_corrected) = 15
    /\ Len(results) = 15
    /\ Len(calibrations) = 15

(***************************************************************************)
(* Runs of an ideal pure-state circuit under shrinking statistical noise   *)
(***************************************************************************)

\* The largest number of shots per setting a run is given.
MaxShots == 64

\* The standard deviation of a setting's mean over n shots of +-1 outcomes
\* is at most 1/sqrt(n).
NoiseMagnitude(n) == Rat(1, ISqrt(n))

\* The expectations of the one-qubit pure states |0> and |+i> (X, Y, Z) and
\* of the two-qubit Bell state, in the order of state_tomo_settings.
PureExpectations(qs) ==
    IF Len(qs) = 1
        THEN {<<Zero, Zero, One>>, <<Zero, One, Zero>>}
        ELSE {[k \in 1..Len(state_tomo_settings(qs)) |->
                  BellExpectation(state_tomo_settings(qs)[k].out_operator)]}

\* The noise-free results of a run.
IdealResults(qs, ideal) ==
    [k \in 1..Len(ideal) |->
        ExperimentResult(state_tomo_settings(qs)[k], <<ideal[k], Zero>>,
                         Exact(Zero), "float64")]

\* Independent samples, one per setting, in units of the standard deviation.
NoiseSamples(qs) ==
    IF Len(qs) = 1
        THEN [1..3 -> {-1, 1}]
        ELSE {[k \in 1..15 |-> 1], [k \in 1..15 |-> IF k % 2 = 0 THEN 1 ELSE -1]}

\* qc.experiment on the noisy machine with n shots per setting: every
\* expectation is the ideal one plus its sample of the noise.
NoisyRuns(ideal, qs, n) ==
    {[k \in 1..Len(ideal) |->
        ExperimentResult(ideal[k].setting,
                         <<RAdd(ideal[k].expectation[1],
                                RMul(Int2R(z[k]), NoiseMagnitude(n))), Zero>>,
                         Exact(NoiseMagnitude(n)), "float64")] :
        z \in NoiseSamples(qs)}

InitNoise ==
    /\ pc = "noise"
    /\ frames = <<>>
    /\ qmi = NoCall
    /\ reset = NoRun
    /\ shots = 4
    /\ qubits \in {<<0>>, <<0, 1>>}
    /\ results \in {IdealResults(qubits, e) : e \in PureExpectations(qubits)}
    /\ results_corrected \in NoisyRuns(results, qubits, shots)
    /\ state_tomography_settings = <<>>
    /\ calibrations = <<>>
    /\ rho_simulated = <<>>
    /\ raised = "none"

\* linear_inv_state_estimate(results_corrected, qubits) on the noisy run.
EstimateNoisy ==
    /\ pc = "noise"
    /\ LET out == linear_inv_state_estimate(results_corrected, qubits)
       IN  /\ rho_simulated' = out.value
           /\ raised' = out.raised
    /\ pc' = "estimated"
    /\ UNCHANGED <<qubits, state_tomography_settings, results, calibrations,
                   results_corrected, frames, qmi, shots, reset>>

\* The next run: four times the shots, half the noise, fresh samples.  The
\* previous run's estimate stays in rho_simulated until the new one is made.
MoreShots ==
    /\ pc = "estimated"
    /\ shots < MaxShots
    /\ shots' = 4 * shots
    /\ results_corrected' \in NoisyRuns(results, qubits, shots')
    /\ pc' = "noise"
    /\ UNCHANGED <<qubits, state_tomography_settings, results, calibrations,
                   rho_simulated, raised, frames, qmi, reset>>

NextNoise == EstimateNoisy \/ MoreShots

SpecNoise == InitNoise /\ [][NextNoise]_vars

\* ||A - A^dagger||^2, the squared Frobenius norm of the deviation of A from
\* Hermitian symmetry.
Deviation(A) ==
    SumRange([k \in 1..(Rows(A) * Rows(A)) |->
                 Bind(CSub(A[((k - 1) \div Rows(A)) + 1][((k - 1) % Rows(A)) + 1],
                           CConj(A[((k - 1) % Rows(A)) + 1][((k - 1) \div Rows(A)) + 1])),
                      LAMBDA c : <<RAdd(RMul(c[1], c[1]), RMul(c[2], c[2])), Zero>>)],
             1, Rows(A) * Rows(A))[1]

RLess(x, y) == RLeq(x, y) /\ x # y

\* C17 as stated: from each run to the next one, whose noise is half as
\* large, the deviation of the estimate from Hermitian symmetry shrinks.
C17_DeviationShrinks ==
    [][(pc = "noise" /\ rho_simulated # <<>>)
        => RLess(Deviation(rho_simulated'), Deviation(rho_simulated))]_vars

\* C17: the estimate made from the noisy real expectations of an ideal pure
\* state is exactly Hermitian at every noise magnitude: ||rho - rho^dagger||
\* is 0 in every run, so it is never larger in a run of smaller noise, and
\* it has nothing to shrink from.
C17_HermitianAtEveryNoise ==
    pc = "estimated"
    => /\ raised = "none"
       /\ Deviation(rho_simulated) = Zero

C17_Witness ==
    /\ pc = "estimated"
    /\ qubits = <<0, 1>>
    /\ shots = 16
    /\ HasBellExpectations(results)
    /\ \A k \in 1..15 : results_corrected[k].expectation # results[k].expectation
    /\ rho_simulated # BellMatrix
    /\ Deviation(rho_simulated) = Zero

(***************************************************************************)
(* The HelloQMI notebook (src/notebooks/qcs-only/HelloQMI.ipynb):          *)
(* query_device and hello_qmi, statement by statement.                     *)
(*                                                                         *)
(* qmi is a record: pc is the statement hello_qmi is at ("idle" between    *)
(* calls), frame holds the locals of the call in progress, stdout is what  *)
(* print has written, log lists the pyquil calls made (the call of         *)
(* hello_qmi that made them, the function, its argument), raised is the    *)
(* exception the last call ended with, calls counts the calls started;     *)
(* lattices is what list_lattices() answers and booked is the lattice the  *)
(* user has engaged ("none" without a booking); flaky tells whether the    *)
(* services behind list_lattices, compile and run may fail.                *)
(***************************************************************************)

\* The largest number of calls of hello_qmi in one session.
MaxCalls == 2

\* Python's None, a value unlike every dict.
None == [None |-> TRUE]

\* def hello_qmi(device_name: str = "9q-generic-qvm", shots: int = 5)
DefaultDeviceName == "9q-generic-qvm"

DefaultShots == 5

\* Names get_qc makes a QVM for, and names of lattices of the QPU.
QVMNames == {"9q-generic-qvm", "9q-square-qvm"}

LatticeNames == {"Aspen-4-2Q-A", "Aspen-4-3Q-A"}

\* What list_lattices() can answer: for each lattice its dict, whose
\* 'qubits' entry is kept as the list of its values in dict order.
Lattices ==
    {[name \in LatticeNames |->
         [qubits |-> IF name = "Aspen-4-2Q-A" THEN two ELSE three]] :
        two \in {<<0, 1>>, <<10, 11>>},
        three \in {<<0, 1, 2>>, <<10, 11, 17>>}}

\* query_device(device_name): the lattice's dict, or None.
query_device(device_name, lattices) ==
    IF device_name \in DOMAIN lattices THEN lattices[device_name] ELSE None

\* Quil instructions.
Pragma(command, args) == [op |-> "PRAGMA", command |-> command, args |-> args]

Declare(name, type, size) ==
    [op |-> "DECLARE", name |-> name, type |-> type, size |-> size]

RX(angle, qubit) == [op |-> "RX", angle |-> angle, qubit |-> qubit]

\* MEASURE(qubit, ro[idx])
MEASURE(qubit, idx) == [op |-> "MEASURE", qubit |-> qubit, ro |-> idx]

\* Program(): no instruction, one shot.
Program == [instructions |-> <<>>, num_shots |-> 1]

\* program += instructions
Add(program, instructions) ==
    [program EXCEPT !.instructions = @ \o instructions]

\* Each qubit measured right after its own pulse.
RECURSIVE pulse_and_measure(_, _)
pulse_and_measure(qs, k) ==
    IF k = 0 THEN <<>>
    ELSE pulse_and_measure(qs, k - 1)
             \o <<RX("pi/2", qs[k]), MEASURE(qs[k], k - 1)>>

program_for_interleaved(device) ==
    IF device # None
        THEN <<Declare("ro", "BIT", Len(device.qubits))>>
                 \o pulse_and_measure(device.qubits, Len(device.qubits))
        ELSE <<Declare("ro", "BIT", 3)>> \o pulse_and_measure(<<0, 1, 2>>, 3)

\* The instructions hello_qmi adds after the pragma: for a lattice's dict,
\* a readout bit, a pulse and a measurement per qubit of the lattice; for
\* None, three bits and qubits 0, 1 and 2.
program_for(device) ==
    IF device # None
        THEN <<Declare("ro", "BIT", Len(device.qubits))>>
                 \o [k \in 1..Len(device.qubits) |-> RX("pi/2", device.qubits[k])]
                 \o [k \in 1..Len(device.qubits) |->
                        MEASURE(device.qubits[k], k - 1)]
        ELSE <<Declare("ro", "BIT", 3)>>
                 \o <<RX("pi/2", 0), RX("pi/2", 1), RX("pi/2", 2)>>
                 \o <<MEASURE(0, 0), MEASURE(1, 1), MEASURE(2, 2)>>

\* Python's binding of the parameters, with "9q-square-qvm" as the default
\* device.
bind_parameters_other_default(args) ==
    [device_name |-> IF "device_name" \in DOMAIN args
                         THEN args.device_name ELSE "9q-square-qvm",
     shots |-> IF "shots" \in DOMAIN args THEN args.shots ELSE DefaultShots]

\* Python's binding of hello_qmi's parameters: the argument where one is
\* given, the default otherwise.
bind_parameters(args) ==
    [device_name |-> IF "device_name" \in DOMAIN args
                         THEN args.device_name ELSE DefaultDeviceName,
     shots |-> IF "shots" \in DOMAIN args THEN args.shots ELSE DefaultShots]

\* get_qc falling back to a QVM where the lattice cannot be engaged.
get_qc_or_qvm(name, booked) ==
    [raised |-> "none",
     qc |-> [name |-> name,
             qam |-> IF name \in QVMNames \/ name # booked THEN "QVM" ELSE "QPU"]]

\* get_qc(name): a QuantumComputer whose qam is a QVM for a QVM name and a
\* QPU for the lattice the user has engaged; UserMessageError for a lattice
\* that is not engaged.
get_qc(name, booked) ==
    IF name \in QVMNames
        THEN [raised |-> "none", qc |-> [name |-> name, qam |-> "QVM"]]
    ELSE IF name = booked
        THEN [raised |-> "none", qc |-> [name |-> name, qam |-> "QPU"]]
    ELSE [raised |-> "UserMessageError", qc |-> None]

\* qc.compile(program) on the quantum computer called name: the executable
\* for that machine, which keeps the program's instructions and its number
\* of shots.
compile(program, name) ==
    [executable |-> program.instructions, num_shots |-> program.num_shots,
     compiled_for |-> name]

\* The size of the program's readout register.
DeclaredSize(instructions) ==
    LET decl == CHOOSE k \in 1..Len(instructions) : instructions[k].op = "DECLARE"
    IN  instructions[decl].size

ReadoutSize(program) == DeclaredSize(program.instructions)

\* qc.run(executable): one row per shot, one column per readout bit.  The
\* bits themselves are random; only the shape of the array is kept.
run(executable) ==
    [rows |-> executable.num_shots,
     cols |-> DeclaredSize(executable.executable)]

\* f"Your{' virtual' if isinstance(qc.qam, QVM) else ''} quantum computer,
\* {device_name}, greets you with:\n"
Greeting(qc, device_name) ==
    "Your" \o (IF qc.qam = "QVM" THEN " virtual" ELSE "")
        \o " quantum computer, " \o device_name \o ", greets you with:\n"

\* The arguments hello_qmi is called with.
Arguments ==
    {<<>>}
        \cup {[device_name |-> n] : n \in QVMNames \cup LatticeNames}
        \cup {[shots |-> 2]}
        \cup {[device_name |-> n, shots |-> 2] : n \in QVMNames \cup LatticeNames}

Idle(lattices, booked, flaky) ==
    [pc |-> "idle", calls |-> 0, frame |-> Unbound, stdout |-> <<>>,
     log |-> <<>>, raised |-> "none", lattices |-> lattices,
     booked |-> booked, flaky |-> flaky]

InitQMI ==
    /\ qmi \in {Idle(l, b, FALSE) :
                   l \in Lattices, b \in {"none"} \cup LatticeNames}
    /\ pc = "idle"
    /\ frames = <<>>
    /\ shots = Shots
    /\ reset = NoRun
    /\ qubits = <<>>
    /\ state_tomography_settings = <<>>
    /\ results = <<>>
    /\ calibrations = <<>>
    /\ results_corrected = <<>>
    /\ rho_simulated = <<>>
    /\ raised = "none"

Tomography ==
    <<pc, qubits, state_tomography_settings, results, calibrations,
      results_corrected, rho_simulated, raised, frames, shots, reset>>

\* The log with one more call made by the call of hello_qmi in progress:
\* the function, its argument, what it returned, the exception it raised.
Logged(op, arg, ret, exception) ==
    Append(qmi.log, [call |-> qmi.calls, op |-> op, arg |-> arg, ret |-> ret,
                     raised |-> exception])

\* The exception leaves hello_qmi, which handles none: the frame is dropped.
Raised(op, arg, exception) ==
    [qmi EXCEPT !.pc = "idle",
                !.log = Logged(op, arg, None, exception),
                !.raised = exception,
                !.frame = Unbound]

\* hello_qmi(...): the parameters are bound.
CallHelloQmi ==
    /\ qmi.pc = "idle"
    /\ qmi.calls < MaxCalls
    /\ \E args \in Arguments :
           qmi' = [qmi EXCEPT !.pc = "program",
                              !.calls = @ + 1,
                              !.raised = "none",
                              !.log = Append(@, [call |-> qmi.calls + 1,
                                                 op |-> "hello_qmi",
                                                 arg |-> args,
                                                 ret |-> None,
                                                 raised |-> "none"]),
                              !.frame = [args |-> args,
                                         device_name |-> bind_parameters(args).device_name,
                                         shots |-> bind_parameters(args).shots]]
    /\ UNCHANGED Tomography

\* program = Program() ... the if statement on query_device(device_name),
\* whose call of list_lattices() may fail.
BuildProgram ==
    /\ qmi.pc = "program"
    /\ LET device == query_device(qmi.frame.device_name, qmi.lattices)
           program == Add(Add(Program, <<Pragma("INITIAL_REWIRING", "GREEDY")>>),
                          program_for(device))
       IN  \/ qmi' = [qmi EXCEPT !.pc = "wrap",
                                 !.log = Logged("query_device",
                                                qmi.frame.device_name, device,
                                                "none"),
                                 !.frame = [device |-> device,
                                            program |-> program] @@ @]
           \/ /\ qmi.flaky
              /\ qmi' = Raised("query_device", qmi.frame.device_name,
                               "ValueError")
    /\ UNCHANGED Tomography

\* program.wrap_in_numshots_loop(shots)
WrapInNumshotsLoop ==
    /\ qmi.pc = "wrap"
    /\ qmi' = [qmi EXCEPT !.pc = "get_qc",
                          !.log = Logged("wrap_in_numshots_loop",
                                         qmi.frame.shots, None, "none"),
                          !.frame.program.num_shots = qmi.frame.shots]
    /\ UNCHANGED Tomography

\* qc = get_qc(device_name): the error it raises ends the call.
GetQc ==
    /\ qmi.pc = "get_qc"
    /\ LET got == get_qc(qmi.frame.device_name, qmi.booked)
       IN  IF got.raised = "none"
               THEN qmi' = [qmi EXCEPT !.pc = "compile",
                                       !.log = Logged("get_qc",
                                                      qmi.frame.device_name,
                                                      got.qc, "none"),
                                       !.frame = [qc |-> got.qc] @@ @]
               ELSE qmi' = Raised("get_qc", qmi.frame.device_name, got.raised)
    /\ UNCHANGED Tomography

\* compiled_program = qc.compile(program); the compiler may fail.
Compile ==
    /\ qmi.pc = "compile"
    /\ LET compiled_program == compile(qmi.frame.program, qmi.frame.qc.name)
       IN  \/ qmi' = [qmi EXCEPT !.pc = "run",
                                 !.log = Logged("compile", qmi.frame.program,
                                                compiled_program, "none"),
                                 !.frame = [compiled_program |-> compiled_program]
                                               @@ @]
           \/ /\ qmi.flaky
              /\ qmi' = Raised("compile", qmi.frame.program, "QuilcError")
    /\ UNCHANGED Tomography

\* The program run as it was written, without the compiler's executable.
RunUncompiled ==
    /\ qmi.pc = "run"
    /\ LET array == [rows |-> qmi.frame.program.num_shots,
                       cols |-> ReadoutSize(qmi.frame.program)]
       IN  qmi' = [qmi EXCEPT !.pc = "print",
                              !.log = Logged("run", qmi.frame.program, array,
                                             "none"),
                              !.frame = [results |-> array] @@ @]
    /\ UNCHANGED Tomography

\* results = qc.run(compiled_program); the machine may fail.
Run ==
    /\ qmi.pc = "run"
    /\ LET array == run(qmi.frame.compiled_program)
       IN  \/ qmi' = [qmi EXCEPT !.pc = "print",
                                 !.log = Logged("run", qmi.frame.compiled_program,
                                                array, "none"),
                                 !.frame = [results |-> array] @@ @]
           \/ /\ qmi.flaky
              /\ qmi' = Raised("run", qmi.frame.compiled_program, "QPUError")
    /\ UNCHANGED Tomography

\* print(f"Your ...", results), and the return that follows it.
PrintGreeting ==
    /\ qmi.pc = "print"
    /\ LET text == Greeting(qmi.frame.qc, qmi.frame.device_name)
       IN  qmi' = [qmi EXCEPT !.pc = "idle",
                              !.log = Logged("print", text, None, "none"),
                              !.stdout = Append(@, [call |-> qmi.calls,
                                                    text |-> text,
                                                    results |-> qmi.frame.results]),
                              !.frame = Unbound]
    /\ UNCHANGED Tomography

NextQMI ==
    \/ CallHelloQmi
    \/ BuildProgram
    \/ WrapInNumshotsLoop
    \/ GetQc
    \/ Compile
    \/ Run
    \/ PrintGreeting

SpecQMI == InitQMI /\ [][NextQMI]_vars

\* Sessions in which list_lattices, compile and run may fail.
InitFlaky ==
    /\ qmi \in {Idle(l, b, TRUE) :
                   l \in {k \in Lattices :
                             k["Aspen-4-2Q-A"].qubits = <<10, 11>>},
                   b \in {"none", "Aspen-4-3Q-A"}}
    /\ reset = NoRun
    /\ pc = "idle"
    /\ frames = <<>>
    /\ shots = Shots
    /\ qubits = <<>>
    /\ state_tomography_settings = <<>>
    /\ results = <<>>
    /\ calibrations = <<>>
    /\ results_corrected = <<>>
    /\ rho_simulated = <<>>
    /\ raised = "none"

SpecFlaky == InitFlaky /\ [][NextQMI]_vars

(***************************************************************************)
(* The Active Qubit Reset notebook (src/unnamed/part_000): ghz_program,    *)
(* the two programs, their runs and the tally of their results.            *)
(*                                                                         *)
(* reset is a record: pc is the statement the notebook is at, the other    *)
(* fields are the notebook's names (qubits, program, binary, program_reset,*)
(* binary_reset, results, results_reset, counts, counts_reset), num_shots  *)
(* is the number of shots the programs are wrapped in, engaged tells       *)
(* whether the lattice is booked, raised is the exception that stopped the *)
(* notebook ("none" while it runs).                                        *)
(***************************************************************************)

\* The largest number of qubits selected, and of shots per run.
MaxSelected == 4

MaxRunShots == 2

\* qpu.device.qubits() of the lattice, as recorded.
DeviceQubits == <<1, 10, 11, 13, 14, 15, 16, 17>>

\* qpu.device.qubits()[-k:]
Last(t, k) == SubSeq(t, Len(t) - k + 1, Len(t))

\* The selections the cell is edited to: the last k qubits of the lattice,
\* three of them in another order, and none.
Selections ==
    {Last(DeviceQubits, k) : k \in 1..MaxSelected} \cup {<<17, 15, 16>>, <<>>}

\* Quil instructions.
H(qubit) == [op |-> "H", qubit |-> qubit]

CNOTGate(control, target) ==
    [op |-> "CNOT", control |-> control, target |-> target]

RESET == [op |-> "RESET"]

\* The readout declared before the gates.
ghz_program_declare_first(qs) ==
    IF Len(qs) = 0
        THEN [raised |-> "IndexError", value |-> None]
        ELSE [raised |-> "none",
              value |->
                  Add(Add(Add(Add(Program,
                      <<Declare("ro", "BIT", Len(qs))>>),
                      <<H(qs[1])>>),
                      [i \in 1..(Len(qs) - 1) |-> CNOTGate(qs[i], qs[i + 1])]),
                      [idx \in 1..Len(qs) |-> MEASURE(qs[idx], idx - 1)])]

\* ghz_program(qubits): qubits[0] raises IndexError on an empty list.
ghz_program(qs) ==
    IF Len(qs) = 0
        THEN [raised |-> "IndexError", value |-> None]
        ELSE [raised |-> "none",
              value |->
                  Add(Add(Add(Add(Program,
                      <<H(qs[1])>>),
                      [i \in 1..(Len(qs) - 1) |-> CNOTGate(qs[i], qs[i + 1])]),
                      <<Declare("ro", "BIT", Len(qs))>>),
                      [idx \in 1..Len(qs) |-> MEASURE(qs[idx], idx - 1)])]

\* The rows a shot can give on k bits: all 0, all 1, 1 then 0s, 0 then 1s.
ShotRows(k) ==
    {[j \in 1..k |-> 0], [j \in 1..k |-> 1],
     [j \in 1..k |-> IF j = 1 THEN 1 ELSE 0],
     [j \in 1..k |-> IF j = 1 THEN 0 ELSE 1]}

\* qpu.run(binary): one row per shot, one bit per readout bit.
qpu_run(binary) ==
    [1..binary.num_shots -> ShotRows(DeclaredSize(binary.executable))]

\* The count set to one instead of raised by one.
counted_once(counts, bit_tuple) == [counts EXCEPT ![bit_tuple] = 1]

\* counts[bit_tuple] += 1
counted(counts, bit_tuple) == [counts EXCEPT ![bit_tuple] = @ + 1]

\* {bit_tuple: 0 for bit_tuple in itertools.product((0, 1), repeat=3)}
ZeroCounts == [bit_tuple \in [1..3 -> {0, 1}] |-> 0]

InitReset ==
    /\ reset \in {[pc |-> "lattice", engaged |-> e, num_shots |-> n,
                   raised |-> "none"] :
                     e \in BOOLEAN, n \in 1..MaxRunShots}
    /\ qmi = NoCall
    /\ pc = "idle"
    /\ frames = <<>>
    /\ shots = Shots
    /\ qubits = <<>>
    /\ state_tomography_settings = <<>>
    /\ results = <<>>
    /\ calibrations = <<>>
    /\ results_corrected = <<>>
    /\ rho_simulated = <<>>
    /\ raised = "none"

Others ==
    <<pc, qubits, state_tomography_settings, results, calibrations,
      results_corrected, rho_simulated, raised, frames, qmi, shots>>

\* An exception ends the notebook.
Stopped(exception) == [reset EXCEPT !.pc = "error", !.raised = exception]

\* qpu = get_qc(lattice); qubits = qpu.device.qubits()[-3:], as edited.
SelectQubits ==
    /\ reset.pc = "lattice"
    /\ IF reset.engaged
           THEN \E qs \in Selections :
                    reset' = [pc |-> "program", qubits |-> qs] @@ reset
           ELSE reset' = Stopped("UserMessageError")
    /\ UNCHANGED Others

\* program = Program(); program.inst(ghz_program(qubits));
\* program.wrap_in_numshots_loop(...); binary = qpu.compile(program)
BuildBinary ==
    /\ reset.pc = "program"
    /\ LET ghz == ghz_program(reset.qubits)
       IN  IF ghz.raised # "none"
               THEN reset' = Stopped(ghz.raised)
               ELSE LET program ==
                            [Add(Program, ghz.value.instructions)
                                EXCEPT !.num_shots = reset.num_shots]
                    IN  reset' = [pc |-> "program_reset", program |-> program,
                                  binary |-> compile(program, "Aspen-1-8Q-B")]
                                     @@ reset
    /\ UNCHANGED Others

\* program_reset = Program(RESET()); ...; binary_reset = qpu.compile(...)
BuildBinaryReset ==
    /\ reset.pc = "program_reset"
    /\ LET ghz == ghz_program(reset.qubits)
       IN  IF ghz.raised # "none"
               THEN reset' = Stopped(ghz.raised)
               ELSE LET program_reset ==
                            [Add(Add(Program, <<RESET>>), ghz.value.instructions)
                                EXCEPT !.num_shots = reset.num_shots]
                    IN  reset' = [pc |-> "run", program_reset |-> program_reset,
                                  binary_reset |->
                                      compile(program_reset, "Aspen-1-8Q-B")]
                                     @@ reset
    /\ UNCHANGED Others

\* results = qpu.run(binary)
RunBinary ==
    /\ reset.pc = "run"
    /\ \E rows \in qpu_run(reset.binary) :
           reset' = [pc |-> "run_reset", results |-> rows] @@ reset
    /\ UNCHANGED Others

\* results_reset = qpu.run(binary_reset)
RunBinaryReset ==
    /\ reset.pc = "run_reset"
    /\ \E rows \in qpu_run(reset.binary_reset) :
           reset' = [pc |-> "counts", results_reset |-> rows] @@ reset
    /\ UNCHANGED Others

\* counts = {bit_tuple: 0 for ...}; i counts the shots tallied.
InitCounts ==
    /\ reset.pc = "counts"
    /\ reset' = [pc |-> "tally", counts |-> ZeroCounts, i |-> 0] @@ reset
    /\ UNCHANGED Others

\* One pass of "for shot_result in results": counts[bit_tuple] += 1, a
\* KeyError when bit_tuple is no key; after the last pass, the printing.
Tally ==
    /\ reset.pc = "tally"
    /\ IF reset.i = Len(reset.results)
           THEN reset' = [reset EXCEPT !.pc = "counts_reset"]
           ELSE LET bit_tuple == reset.results[reset.i + 1]
                IN  IF bit_tuple \in DOMAIN reset.counts
                        THEN reset' = [reset EXCEPT
                                          !.counts = counted(@, bit_tuple),
                                          !.i = @ + 1]
                        ELSE reset' = Stopped("KeyError")
    /\ UNCHANGED Others

\* counts_reset = {bit_tuple: 0 for ...}
InitCountsReset ==
    /\ reset.pc = "counts_reset"
    /\ reset' = [pc |-> "tally_reset", counts_reset |-> ZeroCounts, i |-> 0]
                    @@ reset
    /\ UNCHANGED Others

\* One pass of "for shot_result in results_reset".
TallyReset ==
    /\ reset.pc = "tally_reset"
    /\ IF reset.i = Len(reset.results_reset)
           THEN reset' = [reset EXCEPT !.pc = "done"]
           ELSE LET bit_tuple == reset.results_reset[reset.i + 1]
                IN  IF bit_tuple \in DOMAIN reset.counts_reset
                        THEN reset' = [reset EXCEPT
                                          !.counts_reset = counted(@, bit_tuple),
                                          !.i = @ + 1]
                        ELSE reset' = Stopped("KeyError")
    /\ UNCHANGED Others

NextReset ==
    \/ SelectQubits
    \/ BuildBinary
    \/ BuildBinaryReset
    \/ RunBinary
    \/ RunBinaryReset
    \/ InitCounts
    \/ Tally
    \/ InitCountsReset
    \/ TallyReset

SpecReset == InitReset /\ [][NextReset]_vars


(***************************************************************************)
(* Properties of hello_qmi                                                 *)
(***************************************************************************)

\* The program declares one readout bit per qubit of qs and applies
\* RX(pi/2) to, and measures, exactly the qubits of qs, the k-th into bit
\* k - 1 of the register.
Targets(program, qs) ==
    /\ ReadoutSize(program) = Len(qs)
    /\ Len(program.instructions) = 2 + 2 * Len(qs)
    /\ {i \in Range(program.instructions) : i.op = "RX"}
           = {RX("pi/2", qs[k]) : k \in 1..Len(qs)}
    /\ {i \in Range(program.instructions) : i.op = "MEASURE"}
           = {MEASURE(qs[k], k - 1) : k \in 1..Len(qs)}

\* C18: whatever device_name hello_qmi is called with (a QVM name or a
\* lattice name list_lattices returns), the program it builds applies
\* RX(pi/2) to and measures exactly qubits 0, 1 and 2, into a 3-bit readout
\* register, and the results are a shots x 3 array.
C18_TargetsThreeQubits ==
    /\ qmi.pc \in {"wrap", "get_qc", "compile", "run", "print"}
           => Targets(qmi.frame.program, <<0, 1, 2>>)
    /\ qmi.pc = "print"
           => qmi.frame.results = [rows |-> qmi.frame.shots, cols |-> 3]

\* The entries of the log that call c of hello_qmi made of function op.
Entries(c, op) == {e \in Range(qmi.log) : e.call = c /\ e.op = op}

\* What call c of hello_qmi printed.
Printed(c) == {g \in Range(qmi.stdout) : g.call = c}

\* Call c of hello_qmi has ended, by a return or by an exception.
Ended(c) == c < qmi.calls \/ (c = qmi.calls /\ qmi.pc = "idle")

\* Call c of hello_qmi was given no argument.
NoArguments(c) == \E e \in Entries(c, "hello_qmi") : DOMAIN e.arg = {}

\* C19: a call of hello_qmi with no arguments calls get_qc with
\* "9q-generic-qvm", wraps the program in a loop of 5 shots, and prints the
\* greeting of a virtual quantum computer of that name.
C19_Defaults ==
    \A c \in 1..qmi.calls :
        NoArguments(c) =>
            /\ \A e \in Entries(c, "get_qc") : e.arg = "9q-generic-qvm"
            /\ \A e \in Entries(c, "wrap_in_numshots_loop") : e.arg = 5
            /\ \A e \in Entries(c, "compile") : e.arg.num_shots = 5
            /\ \A g \in Printed(c) :
                   g.text = "Your virtual quantum computer, 9q-generic-qvm, greets you with:\n"
            /\ Ended(c) =>
                   /\ Entries(c, "get_qc") # {}
                   /\ Entries(c, "wrap_in_numshots_loop") # {}
                   /\ Printed(c) # {}

C19_Witness ==
    /\ qmi.pc = "idle"
    /\ qmi.calls = 1
    /\ NoArguments(1)
    /\ qmi.raised = "none"
    /\ \E e \in Entries(1, "get_qc") : e.arg = "9q-generic-qvm"
    /\ \E g \in Printed(1) :
           /\ g.text = "Your virtual quantum computer, 9q-generic-qvm, greets you with:\n"
           /\ g.results = [rows |-> 5, cols |-> 3]

\* Call c of hello_qmi asked get_qc for a lattice that is not engaged.
EngagementFailed(c) ==
    \E e \in Entries(c, "get_qc") : e.arg \in LatticeNames /\ e.arg # qmi.booked

\* Call d of hello_qmi named a QVM, and ended.
EndedOnQVM(d) ==
    /\ Ended(d)
    /\ \E e \in Entries(d, "hello_qmi") :
           bind_parameters(e.arg).device_name \in QVMNames

\* Call d ran to its end: it compiled, ran and printed what a first call
\* with its arguments prints.
Succeeded(d) ==
    /\ Entries(d, "compile") # {}
    /\ Entries(d, "run") # {}
    /\ d = qmi.calls => qmi.raised = "none"
    /\ \E e \in Entries(d, "hello_qmi") :
           Printed(d) =
               {[call |-> d,
                 text |-> Greeting([qam |-> "QVM"],
                                   bind_parameters(e.arg).device_name),
                 results |-> [rows |-> bind_parameters(e.arg).shots,
                              cols |-> 3]]}

\* C20: when hello_qmi is called with a lattice for which no time is booked,
\* the error get_qc raises ends the call and reaches the caller: that call
\* compiles nothing, runs nothing and prints nothing, and keeps no frame;
\* every later call that names a QVM still succeeds.
C20_EngagementFailurePropagates ==
    \A c \in 1..qmi.calls :
        EngagementFailed(c) =>
            /\ Entries(c, "compile") = {}
            /\ Entries(c, "run") = {}
            /\ Printed(c) = {}
            /\ c = qmi.calls =>
                   /\ qmi.pc = "idle"
                   /\ qmi.raised = "UserMessageError"
                   /\ qmi.frame = Unbound
            /\ \A d \in (c + 1)..qmi.calls : EndedOnQVM(d) => Succeeded(d)

C20_Witness ==
    /\ qmi.calls = 2
    /\ qmi.pc = "idle"
    /\ EngagementFailed(1)
    /\ Printed(1) = {}
    /\ EndedOnQVM(2)
    /\ Succeeded(2)

(***************************************************************************)
(* Properties of the Active Qubit Reset notebook                           *)
(***************************************************************************)

\* The positions of the instructions of the given kinds.
Positions(ins, ops) == {p \in 1..Len(ins) : ins[p].op \in ops}

\* The instructions are H on qs[1], the chain of CNOTs, the declaration of
\* the readout register, and one MEASURE per qubit, in this order.
IsGhz(ins, qs) ==
    LET k == Len(qs)
    IN  /\ Len(ins) = 2 * k + 1
        /\ ins[1] = H(qs[1])
        /\ \A i \in 1..(k - 1) : ins[1 + i] = CNOTGate(qs[i], qs[i + 1])
        /\ ins[k + 1] = Declare("ro", "BIT", k)
        /\ \A idx \in 1..k : ins[k + 1 + idx] = MEASURE(qs[idx], idx - 1)
        /\ Cardinality(Positions(ins, {"H"})) = 1
        /\ Cardinality(Positions(ins, {"CNOT"})) = k - 1
        /\ Cardinality(Positions(ins, {"MEASURE"})) = k
        /\ \A g \in Positions(ins, {"H", "CNOT"}) :
               \A m \in Positions(ins, {"MEASURE"}) : g < m
        /\ \A m, n \in Positions(ins, {"MEASURE"}) :
               (ins[m].qubit # ins[n].qubit) => (ins[m].ro # ins[n].ro)

\* C21: for a non-empty list of k distinct qubits ghz_program emits one H on
\* qubits[0], then CNOT(qubits[i], qubits[i+1]) for i = 0..k-2, then the
\* declaration of the k-bit register ro, then one MEASURE per qubit, the
\* qubit at position idx into ro[idx]; every measurement follows every gate
\* and no two qubits are measured into the same bit.
C21_GhzProgramOrder ==
    \A qs \in Selections :
        (reset.pc = "program_reset" /\ reset.qubits = qs /\ Len(qs) > 0
            /\ IsInjective(qs))
        => /\ ghz_program(qs).raised = "none"
           /\ IsGhz(ghz_program(qs).value.instructions, qs)
           /\ reset.program.instructions = ghz_program(qs).value.instructions

C21_Witness ==
    /\ reset.pc = "program_reset"
    /\ reset.qubits = <<17, 15, 16>>
    /\ reset.program.instructions =
           <<H(17), CNOTGate(17, 15), CNOTGate(15, 16), Declare("ro", "BIT", 3),
             MEASURE(17, 0), MEASURE(15, 1), MEASURE(16, 2)>>

\* The number of shots of the run whose bits are bit_tuple.
Shots_with(rows, bit_tuple) ==
    Cardinality({i \in 1..Len(rows) : rows[i] = bit_tuple})

RECURSIVE Total(_, _)
Total(counts, keys) ==
    IF keys = {} THEN 0
    ELSE counts[The(keys)] + Total(counts, keys \ {The(keys)})

\* counts is the tally of rows over the 8 keys of {0,1}^3.
IsTally(counts, rows) ==
    /\ DOMAIN counts = [1..3 -> {0, 1}]
    /\ Cardinality(DOMAIN counts) = 8
    /\ \A bit_tuple \in DOMAIN counts :
           counts[bit_tuple] = Shots_with(rows, bit_tuple)
    /\ Total(counts, DOMAIN counts) = Len(rows)

\* C25: after the tally loop over results, counts has exactly the 8 keys of
\* {0,1}^3, each count is the number of shots with that bit tuple, and the
\* counts sum to the number of shots; the loop ends so only for 3 selected
\* qubits: for any other number the first shot raises KeyError and nothing
\* is counted; tallying results_reset leaves counts as it was.
C25_BitstringTally ==
    /\ reset.pc \in {"counts_reset", "tally_reset", "done"}
           => /\ Len(reset.qubits) = 3
              /\ Len(reset.results) = reset.num_shots
              /\ IsTally(reset.counts, reset.results)
    /\ (reset.pc = "tally" /\ Len(reset.qubits) # 3)
           => /\ reset.i = 0
              /\ reset.counts = ZeroCounts
    /\ (reset.pc = "error" /\ "counts" \in DOMAIN reset)
           => /\ Len(reset.qubits) # 3
              /\ reset.raised = "KeyError"
              /\ reset.counts = ZeroCounts
    /\ reset.pc = "done"
           => IsTally(reset.counts_reset, reset.results_reset)

C25_Witness ==
    /\ reset.pc = "done"
    /\ reset.qubits = <<15, 16, 17>>
    /\ reset.results = <<(<<1, 1, 1>>), (<<1, 1, 1>>)>>
    /\ reset.results_reset = <<(<<0, 0, 0>>), (<<1, 0, 0>>)>>
    /\ reset.counts[<<1, 1, 1>>] = 2
    /\ reset.counts[<<0, 0, 0>>] = 0
    /\ reset.counts_reset[<<1, 0, 0>>] = 1

\* C22: in every program hello_qmi builds, for a lattice and for any other
\* name, the INITIAL_REWIRING pragma is the first instruction, every RX
\* precedes every MEASURE, each measured qubit received exactly one
\* RX(pi/2), there are as many MEASUREs as the readout register has bits,
\* and each index 0..size-1 of the register is written exactly once.
C22_ProgramWellFormed ==
    qmi.pc \in {"wrap", "get_qc", "compile", "run", "print"} =>
        LET ins == qmi.frame.program.instructions
            size == ReadoutSize(qmi.frame.program)
        IN  /\ ins[1] = Pragma("INITIAL_REWIRING", "GREEDY")
            /\ Positions(ins, {"PRAGMA"}) = {1}
            /\ \A r \in Positions(ins, {"RX"}) :
                   \A m \in Positions(ins, {"MEASURE"}) : r < m
            /\ \A m \in Positions(ins, {"MEASURE"}) :
                   /\ Cardinality({r \in Positions(ins, {"RX"}) :
                                      ins[r].qubit = ins[m].qubit}) = 1
                   /\ \A r \in Positions(ins, {"RX"}) : ins[r].angle = "pi/2"
            /\ Cardinality(Positions(ins, {"MEASURE"})) = size
            /\ \A idx \in 0..(size - 1) :
                   Cardinality({m \in Positions(ins, {"MEASURE"}) :
                                   ins[m].ro = idx}) = 1
            /\ \A m \in Positions(ins, {"MEASURE"}) : ins[m].ro \in 0..(size - 1)

\* Both branches: a lattice whose qubits are not 0, 1, 2, and a QVM name.
C22_Witness ==
    /\ qmi.calls = 2
    /\ qmi.pc = "compile"
    /\ qmi.frame.device_name = "Aspen-4-3Q-A"
    /\ qmi.frame.device = [qubits |-> <<10, 11, 17>>]
    /\ Len(qmi.frame.program.instructions) = 8
    /\ \E e \in Entries(1, "compile") : Len(e.arg.instructions) = 8
    /\ \E e \in Entries(1, "get_qc") : e.arg \in QVMNames

\* What call c of hello_qmi did, in order: its entries of the log after the
\* entry of the call itself.
Steps(c) ==
    SelectSeq(qmi.log, LAMBDA e : e.call = c /\ e.op # "hello_qmi")

\* The order of the operations of hello_qmi.
Order ==
    <<"query_device", "wrap_in_numshots_loop", "get_qc", "compile", "run",
      "print">>

\* C23: within one call of hello_qmi the operations occur in the order
\* query_device, wrap_in_numshots_loop, get_qc, compile, run, print, each at
\* most once; run is given the executable compile returned, compile is given
\* the program with the shot count set, and a step that fails is the last
\* step of its call.
C23_OperationOrder ==
    \A c \in 1..qmi.calls :
        LET steps == Steps(c)
        IN  /\ Len(steps) <= Len(Order)
            /\ \A k \in 1..Len(steps) : steps[k].op = Order[k]
            /\ \A k \in 1..Len(steps) :
                   steps[k].raised # "none" => k = Len(steps)
            /\ (Ended(c) /\ Len(steps) < Len(Order))
                   => (Len(steps) > 0 /\ steps[Len(steps)].raised # "none")
            /\ Len(steps) >= 4 =>
                   /\ steps[4].arg.num_shots = steps[2].arg
                   /\ \E e \in Entries(c, "hello_qmi") :
                          steps[2].arg = bind_parameters(e.arg).shots
            /\ Len(steps) >= 5 =>
                   /\ steps[4].raised = "none"
                   /\ steps[5].arg = steps[4].ret
                   /\ steps[5].arg # steps[4].arg

\* A call in which run failed after a call that ran to its end.
C23_Witness ==
    /\ qmi.calls = 2
    /\ qmi.pc = "idle"
    /\ Len(Steps(1)) = 6
    /\ Steps(1)[6].op = "print"
    /\ Len(Steps(2)) = 5
    /\ Steps(2)[5].op = "run"
    /\ Steps(2)[5].raised = "QPUError"
    /\ Steps(2)[5].arg = Steps(2)[4].ret
    /\ Printed(2) = {}

(***************************************************************************)
(* Calls of get_active_lattice and query_device from the notebook          *)
(***************************************************************************)

\* The largest number of such calls in one session.
MaxQueries == 2

\* What stands behind PyquilConfig().qpu_compiler_url: a configuration that
\* cannot be read, an endpoint that refuses the connection or does not
\* answer within the timeout, or the dict it answers get_config_info with.
Endpoints ==
    {[kind |-> k] : k \in {"configuration error", "refused", "timeout"}}
        \cup {[kind |-> "answer", response |-> [lattice_name |-> n]] :
                 n \in LatticeNames}
        \cup {[kind |-> "answer", response |-> [device_name |-> "Aspen-4"]]}

\* The body of the try statement: the value it returns or the exception it
\* raises.
config_info_lattice_name(endpoint) ==
    IF endpoint.kind = "configuration error"
        THEN [raised |-> "ConfigurationError", value |-> None]
    ELSE IF endpoint.kind = "refused"
        THEN [raised |-> "ConnectionError", value |-> None]
    ELSE IF endpoint.kind = "timeout"
        THEN [raised |-> "TimeoutError", value |-> None]
    ELSE IF "lattice_name" \in DOMAIN endpoint.response
        THEN [raised |-> "none", value |-> endpoint.response.lattice_name]
    ELSE [raised |-> "KeyError", value |-> None]

\* The try statement without its except clause.
get_active_lattice_uncaught(endpoint) == config_info_lattice_name(endpoint)

\* get_active_lattice(): the bare except turns every exception into None.
get_active_lattice(endpoint) ==
    IF config_info_lattice_name(endpoint).raised = "none"
        THEN config_info_lattice_name(endpoint)
        ELSE [raised |-> "none", value |-> None]

InitQueries ==
    /\ qmi \in {[endpoint |-> e] @@ Idle(l, "none", f) :
                   e \in Endpoints, l \in Lattices, f \in BOOLEAN}
    /\ reset = NoRun
    /\ pc = "idle"
    /\ frames = <<>>
    /\ shots = Shots
    /\ qubits = <<>>
    /\ state_tomography_settings = <<>>
    /\ results = <<>>
    /\ calibrations = <<>>
    /\ results_corrected = <<>>
    /\ rho_simulated = <<>>
    /\ raised = "none"

\* get_active_lattice()
CallGetActiveLattice ==
    /\ qmi.pc = "idle"
    /\ Len(qmi.log) < MaxQueries
    /\ LET out == get_active_lattice(qmi.endpoint)
       IN  qmi' = [qmi EXCEPT !.log = Logged("get_active_lattice", None,
                                             out.value, out.raised),
                              !.raised = out.raised]
    /\ UNCHANGED Tomography

\* query_device(device_name): list_lattices() raises ValueError when QCS
\* cannot be queried, and query_device catches nothing.
CallQueryDevice ==
    /\ qmi.pc = "idle"
    /\ Len(qmi.log) < MaxQueries
    /\ \E device_name \in QVMNames \cup LatticeNames :
           \/ qmi' = [qmi EXCEPT !.log = Logged("query_device", device_name,
                                                query_device(device_name,
                                                             qmi.lattices),
                                                "none"),
                                 !.raised = "none"]
           \/ /\ qmi.flaky
              /\ qmi' = [qmi EXCEPT !.log = Logged("query_device", device_name,
                                                   None, "ValueError"),
                                    !.raised = "ValueError"]
    /\ UNCHANGED Tomography

NextQueries == CallGetActiveLattice \/ CallQueryDevice

SpecQueries == InitQueries /\ [][NextQueries]_vars

\* C24: get_active_lattice never raises: it returns the lattice name the
\* endpoint answers get_config_info with, and None on every failure
\* (configuration error, refused connection, timeout, answer without
\* 'lattice_name'); query_device(name) returns the lattice's dict when name
\* is a key of what list_lattices() returned, and None otherwise.
C24_NoneOnFailure ==
    \A e \in Range(qmi.log) :
        /\ e.op = "get_active_lattice" =>
               /\ e.raised = "none"
               /\ IF qmi.endpoint.kind = "answer"
                      /\ "lattice_name" \in DOMAIN qmi.endpoint.response
                      THEN e.ret = qmi.endpoint.response.lattice_name
                      ELSE e.ret = None
        /\ (e.op = "query_device" /\ e.raised = "none") =>
               IF e.arg \in DOMAIN qmi.lattices
                   THEN e.ret = qmi.lattices[e.arg]
                   ELSE e.ret = None

C24_Witness ==
    /\ qmi.endpoint.kind = "timeout"
    /\ Len(qmi.log) = 2
    /\ qmi.log[1].op = "get_active_lattice"
    /\ qmi.log[1].raised = "none"
    /\ qmi.log[1].ret = None
    /\ qmi.log[2].op = "query_device"
    /\ qmi.log[2].arg = "Aspen-4-3Q-A"
    /\ qmi.log[2].ret = [qubits |-> <<10, 11, 17>>]

(***************************************************************************)
(* The closed form of linear_inv_state_estimate                            *)
(***************************************************************************)

\* (I + sum_k y_k P_k) / 2^n for the observables P_k and expectations y_k of
\* the results.
PauliSum(rs, qs) ==
    Bind([k \in 1..Len(rs) |-> lifted_pauli(rs[k].setting.out_operator, qs)],
         LAMBDA P :
            [i \in 1..Pow(2, Len(qs)) |-> [j \in 1..Pow(2, Len(qs)) |->
                CDivR(CAdd(IF i = j THEN COne ELSE CZero,
                           SumRange([k \in 1..Len(rs) |->
                                        CMul(rs[k].expectation, P[k][i][j])],
                                    1, Len(rs))),
                      Int2R(Pow(2, Len(qs))))]])

\* Tr(P_k rho) is the k-th expectation, for every result.
HasExpectations(rho, rs, qs) ==
    \A k \in 1..Len(rs) :
        Bind(MatMul(lifted_pauli(rs[k].setting.out_operator, qs), rho),
             LAMBDA m : Trace(m) = rs[k].expectation)

HasUnitCoefficients(rs) ==
    \A k \in 1..Len(rs) : rs[k].setting.out_operator.coeff = COne

\* C26: for the full list of the 4^n - 1 non-identity Pauli observables P_k
\* with unit coefficient and expectations y_k, linear_inv_state_estimate
\* returns exactly (I + sum_k y_k P_k) / 2^n; the matrix returned has the
\* expectations it was given, so the exact expectations of a density matrix
\* give that density matrix back.
C26_ClosedForm ==
    (pc # "call" /\ IsComplete(results_corrected, qubits)
        /\ HasUnitCoefficients(results_corrected))
    => /\ pc = "returned"
       /\ rho_simulated = PauliSum(results_corrected, qubits)
       /\ HasExpectations(rho_simulated, results_corrected, qubits)

\* The Bell state mixed half and half with the maximally mixed state.
C26_Witness ==
    /\ pc = "returned"
    /\ qubits = <<0, 1>>
    /\ results_corrected = TwoQubitResults(Rat(1, 2))
    /\ rho_simulated[1] = <<(<<Rat(3, 8), Zero>>), CZero, CZero,
                            (<<Rat(1, 4), Zero>>)>>
    /\ rho_simulated[2] = <<CZero, (<<Rat(1, 8), Zero>>), CZero, CZero>>

\* The results of a full list, put in the order of state_tomo_settings.
InSettingsOrder(rs, qs) ==
    [k \in 1..Len(state_tomo_settings(qs)) |->
        rs[CHOOSE i \in 1..Len(rs) :
               rs[i].setting.out_operator =
                   state_tomo_settings(qs)[k].out_operator]]

\* C27: the matrix returned does not depend on the order of the list: every
\* full list gives the matrix its results give in the order of
\* state_tomo_settings, so all its permutations give the same matrix.
C27_OrderIndependent ==
    (pc # "call" /\ IsComplete(results_corrected, qubits))
    => /\ pc = "returned"
       /\ Bind(linear_inv_state_estimate(
                   InSettingsOrder(results_corrected, qubits), qubits),
               LAMBDA sorted : /\ sorted.raised = "none"
                               /\ rho_simulated = sorted.value)

C27_Witness ==
    /\ pc = "returned"
    /\ qubits = <<0, 1>>
    /\ results_corrected = Reversed(TwoQubitResults(Rat(1, 2)))
    /\ results_corrected # InSettingsOrder(results_corrected, qubits)
    /\ rho_simulated[1][4] = <<Rat(1, 4), Zero>>
    /\ rho_simulated[1][1] = <<Rat(3, 8), Zero>>

IsHermitian(A) == A = ConjT(A)

HasRealExpectations(rs) ==
    \A k \in 1..Len(rs) : rs[k].expectation[2] = Zero

\* C28: when every expectation of a full list is real, the matrix returned
\* equals its conjugate transpose; a matrix returned that is not Hermitian
\* comes from a list with an expectation whose imaginary part is not zero.
C28_HermitianForRealExpectations ==
    (pc # "call" /\ IsComplete(results_corrected, qubits))
    => /\ pc = "returned"
       /\ HasRealExpectations(results_corrected) => IsHermitian(rho_simulated)
       /\ ~IsHermitian(rho_simulated) => ~HasRealExpectations(results_corrected)

C28_Witness ==
    /\ pc = "returned"
    /\ qubits = <<0>>
    /\ IsComplete(results_corrected, qubits)
    /\ HasRealExpectations(results_corrected)
    /\ ExpectationOf(results_corrected, "X") = One
    /\ ExpectationOf(results_corrected, "Y") = One
    /\ rho_simulated[1][2] = <<Rat(1, 2), Rat(-1, 2)>>
    /\ rho_simulated[2][1] = <<Rat(1, 2), Rat(1, 2)>>
    /\ IsHermitian(rho_simulated)

=============================================================================
